---- MODULE Spec2Model ----
(***************************************************************************)
(* Legal Reference Resolution & Validation Engine (backend/ of ptl).       *)
(*                                                                         *)
(* Text is modelled as it is in the program: a string is a sequence of     *)
(* one-character strings, and every regular expression of the source is    *)
(* transcribed node by node into the small regex algebra below and run by  *)
(* a backtracking matcher that follows Python's re priority order.         *)
(***************************************************************************)
EXTENDS Integers, Sequences, FiniteSets, TLC

VARIABLES pc, category, facts, analysis, draft, validation, corpus, query, result

vars == <<pc, category, facts, analysis, draft, validation, corpus, query, result>>

(***************************************************************************)
(* Characters and strings                                                  *)
(***************************************************************************)
UpperLetters == <<"A","B","C","D","E","F","G","H","I","J","K","L","M",
                  "N","O","P","Q","R","S","T","U","V","W","X","Y","Z">>
LowerLetters == <<"a","b","c","d","e","f","g","h","i","j","k","l","m",
                  "n","o","p","q","r","s","t","u","v","w","x","y","z">>

UpperSet == {UpperLetters[k] : k \in 1..26}
LowerSet == {LowerLetters[k] : k \in 1..26}
LetterSet == UpperSet \cup LowerSet
DigitSet == {"0","1","2","3","4","5","6","7","8","9"}
\* \s of Python's re (the blank characters that occur in the modelled text)
SpaceSet == {" ", "\n", "\t"}

\* str.lower() / str.upper()
Lower(s) == [k \in 1..Len(s) |-> IF s[k] \in UpperSet
                               THEN LowerLetters[CHOOSE j \in 1..26 : UpperLetters[j] = s[k]]
                               ELSE s[k]]
Upper(s) == [k \in 1..Len(s) |-> IF s[k] \in LowerSet
                               THEN UpperLetters[CHOOSE j \in 1..26 : LowerLetters[j] = s[k]]
                               ELSE s[k]]

Range(q) == {q[k] : k \in 1..Len(q)}

\* Python's  sub in s  for strings
Contains(s, sub) ==
    \E i \in 0..(Len(s) - Len(sub)) : SubSeq(s, i + 1, i + Len(sub)) = sub

\* str.strip(): the text from its first to its last non-blank character
Strip(s) ==
    LET inked == {k \in 1..Len(s) : s[k] \notin SpaceSet}
    IN  IF inked = {} THEN <<>>
        ELSE SubSeq(s, CHOOSE k \in inked : \A j \in inked : k <= j,
                       CHOOSE k \in inked : \A j \in inked : j <= k)

\* str.replace(old, new) for a one-character old and a new of at most one
\* character
ReplaceChar(s, old, new) ==
    IF new = <<>> THEN SelectSeq(s, LAMBDA c : c # old)
    ELSE [k \in 1..Len(s) |-> IF s[k] = old THEN new[1] ELSE s[k]]

\* " ".join(words)
RECURSIVE Join(_, _)
Join(words, sep) ==
    IF words = <<>> THEN <<>>
    ELSE IF Len(words) = 1 THEN words[1]
    ELSE words[1] \o sep \o Join(Tail(words), sep)

\* str(n) for a natural number
RECURSIVE IntToStr(_)
IntToStr(n) ==
    LET DigitChar == <<"0","1","2","3","4","5","6","7","8","9">>
    IN  IF n < 10 THEN <<DigitChar[n + 1]>>
        ELSE IntToStr(n \div 10) \o <<DigitChar[(n % 10) + 1]>>

(***************************************************************************)
(* Regular expressions (Python re).  A node is a record; offsets count the *)
(* characters consumed, so offset i stands before character s[i+1].        *)
(* Literals compare case-insensitively: every pattern of the source that   *)
(* holds letters is compiled with re.IGNORECASE / (?i).                    *)
(***************************************************************************)
Lit(str) == [t |-> "lit", s |-> str]
In(cs)   == [t |-> "in", cs |-> cs]
Cat(rs)  == [t |-> "cat", rs |-> rs]
Alt(rs)  == [t |-> "alt", rs |-> rs]
Opt(r)   == [t |-> "opt", r |-> r]
Star(r)  == [t |-> "star", r |-> r]
Plus(r)  == Cat(<<r, Star(r)>>)
WB       == [t |-> "wb"]
BOL      == [t |-> "bol"]
EOL      == [t |-> "eol"]

Ws == In(SpaceSet)
Digit == In(DigitSet)
\* .  (any character but a newline)
NotNewline == [t |-> "dot"]

AtWordBoundary(s, i) ==
    LET \* \w of Python's re on the ASCII text used here
        WordChars == LetterSet \cup DigitSet \cup {"_"}
        before == i >= 1 /\ s[i] \in WordChars
        after  == i < Len(s) /\ s[i + 1] \in WordChars
    IN  before # after

\* q followed by the elements of r that q does not hold yet (neither q nor r
\* holds an element twice)
Merge(q, r) == q \o SelectSeq(r, LAMBDA e : e \notin Range(q))

\* the least offset of a set of offsets; -1 for the empty set
Least(offsets) ==
    IF offsets = {} THEN -1 ELSE CHOOSE i \in offsets : \A j \in offsets : i <= j

\* the length of the longest run of characters accepted by re after offset i
RunLength(re, s, i) ==
    LET \* does the one-character node accept the character c
        Accepts(node, c) ==
            CASE node.t = "lit" -> Lower(<<c>>) = Lower(node.s)
              [] node.t = "in"  -> c \in node.cs
              [] node.t = "dot" -> c # "\n"
              [] OTHER -> FALSE
    IN  (
    Least({j \in i..Len(s) : j = Len(s) \/ ~Accepts(re, s[j + 1])}) - i
    )

RECURSIVE Ends(_, _, _), FromAll(_, _, _), StarEnds(_, _, _)

\* the offsets at which a match of re that starts at offset i may end, in the
\* order the backtracking matcher tries them (greedy first)
Ends(re, s, i) ==
    CASE re.t = "lit" ->
           IF i + Len(re.s) <= Len(s)
              /\ Lower(SubSeq(s, i + 1, i + Len(re.s))) = Lower(re.s)
           THEN <<i + Len(re.s)>> ELSE <<>>
      [] re.t = "in"  -> IF i < Len(s) /\ s[i + 1] \in re.cs THEN <<i + 1>> ELSE <<>>
      [] re.t = "dot" -> IF i < Len(s) /\ s[i + 1] # "\n" THEN <<i + 1>> ELSE <<>>
      [] re.t = "wb"  -> IF AtWordBoundary(s, i) THEN <<i>> ELSE <<>>
      [] re.t = "bol" -> IF i = 0 \/ s[i] = "\n" THEN <<i>> ELSE <<>>
      [] re.t = "eol" -> IF i = Len(s) \/ s[i + 1] = "\n" THEN <<i>> ELSE <<>>
      [] re.t = "cat" -> IF re.rs = <<>> THEN <<i>>
                         ELSE FromAll(Cat(Tail(re.rs)), s, Ends(re.rs[1], s, i))
      [] re.t = "alt" -> IF re.rs = <<>> THEN <<>>
                         ELSE Merge(Ends(re.rs[1], s, i), Ends(Alt(Tail(re.rs)), s, i))
      [] re.t = "opt" -> Merge(Ends(re.r, s, i), <<i>>)
      [] re.t = "star" -> StarEnds(re.r, s, i)

\* the ends of re started at each offset of starts, in order
FromAll(re, s, starts) ==
    IF starts = <<>> THEN <<>>
    ELSE IF Len(starts) = 1 THEN Ends(re, s, starts[1])
    ELSE LET half == Len(starts) \div 2
         IN  Merge(FromAll(re, s, SubSeq(starts, 1, half)),
                   FromAll(re, s, SubSeq(starts, half + 1, Len(starts))))

\* greedy r*: one more r first, stopping here last; the repetition of a
\* one-character node ends at every offset of its longest run, farthest first
StarEnds(r, s, i) ==
    LET \* the ends of a run of m characters after offset from, farthest first
        RunEnds(from, m) == [k \in 1..(m + 1) |-> from + m + 1 - k]
    IN  (
    IF r.t \in {"in", "dot"} \/ (r.t = "lit" /\ Len(r.s) = 1)
    THEN RunEnds(i, RunLength(r, s, i))
    ELSE LET once == SelectSeq(Ends(r, s, i), LAMBDA e : e > i)
             RECURSIVE more(_)
             more(q) == IF q = <<>> THEN <<>> ELSE Merge(StarEnds(r, s, q[1]), more(Tail(q)))
         IN  Merge(more(once), <<i>>)
    )

\* the least offset >= from at which a match of re starts; -1 if there is none
FirstStart(re, s, from) == Least({i \in from..Len(s) : Ends(re, s, i) # <<>>})

\* the leftmost match, given the offset i at which it starts: <<start, end>>;
\* <<>> if i is -1
SpanAt(re, s, i) == IF i < 0 THEN <<>> ELSE <<i, Ends(re, s, i)[1]>>

\* re.finditer: the non-overlapping matches, left to right; an empty match
\* moves the scan on by one character, and the scan stops past the end of s
RECURSIVE FindIter(_, _, _), IterAfter(_, _, _)
IterAfter(re, s, m) ==
    IF m = <<>> THEN <<>>
    ELSE <<m>> \o FindIter(re, s, IF m[2] > m[1] THEN m[2] ELSE m[2] + 1)

FindIter(re, s, from) ==
    IF from > Len(s) THEN <<>> ELSE IterAfter(re, s, SpanAt(re, s, FirstStart(re, s, from)))

\* re.fullmatch
FullMatch(re, s) == Len(s) \in Range(Ends(re, s, 0))

\* re.sub(re, pre + (the match if keep) + post, s)
RECURSIVE Rebuild(_, _, _, _, _, _)
Rebuild(s, spans, at, pre, keep, post) ==
    IF spans = <<>> THEN SubSeq(s, at + 1, Len(s))
    ELSE LET m == spans[1]
         IN  SubSeq(s, at + 1, m[1]) \o pre
             \o (IF keep THEN SubSeq(s, m[1] + 1, m[2]) ELSE <<>>) \o post
             \o Rebuild(s, Tail(spans), m[2], pre, keep, post)

ReSub(re, s, pre, keep, post) == Rebuild(s, FindIter(re, s, 0), 0, pre, keep, post)

(***************************************************************************)
(* Case Classifier: backend/services/law_rules.py                          *)
(***************************************************************************)
GOVERNMENT_KEYWORDS == {
    <<"g","o","v","e","r","n","m","e","n","t">>, <<"g","o","v","t">>, <<"f","e","d","e","r","a","l">>,
    <<"m","i","n","i","s","t","r","y">>, <<"m","i","n","i","s","t","e","r">>, <<"p","r","e","s","i","d","e","n","t">>,
    <<"p","r","i","m","e"," ","m","i","n","i","s","t","e","r">>, <<"p","m">>, <<"p","r","o","v","i","n","c","i","a","l">>,
    <<"c","h","i","e","f"," ","m","i","n","i","s","t","e","r">>, <<"c","m">>, <<"g","o","v","e","r","n","o","r">>,
    <<"s","e","c","r","e","t","a","r","y">>, <<"a","d","d","i","t","i","o","n","a","l"," ","s","e","c","r","e","t","a","r","y">>, <<"j","o","i","n","t"," ","s","e","c","r","e","t","a","r","y">>,
    <<"c","o","m","m","i","s","s","i","o","n","e","r">>, <<"d","e","p","u","t","y"," ","c","o","m","m","i","s","s","i","o","n","e","r">>, <<"d","c">>,
    <<"a","s","s","i","s","t","a","n","t"," ","c","o","m","m","i","s","s","i","o","n","e","r">>, <<"a","c">>, <<"p","o","l","i","c","e">>,
    <<"s","s","p">>, <<"d","s","p">>, <<"d","p","o">>,
    <<"s","h","o">>, <<"i","g">>, <<"d","i","g">>,
    <<"i","n","s","p","e","c","t","o","r"," ","g","e","n","e","r","a","l">>, <<"s","t","a","t","i","o","n"," ","h","o","u","s","e"," ","o","f","f","i","c","e","r">>, <<"w","a","p","d","a">>,
    <<"s","u","i"," ","g","a","s">>, <<"s","n","g","p","l">>, <<"s","s","g","c">>,
    <<"p","t","c","l">>, <<"p","a","k","i","s","t","a","n"," ","r","a","i","l","w","a","y">>, <<"r","a","i","l","w","a","y","s">>,
    <<"p","i","a">>, <<"p","a","k","i","s","t","a","n"," ","i","n","t","e","r","n","a","t","i","o","n","a","l">>, <<"o","g","d","c","l">>,
    <<"p","s","o">>, <<"p","a","k","i","s","t","a","n"," ","s","t","a","t","e"," ","o","i","l">>, <<"p","d","a">>,
    <<"l","d","a">>, <<"c","d","a">>, <<"k","d","a">>,
    <<"r","d","a">>, <<"f","d","a">>, <<"l","a","h","o","r","e"," ","d","e","v","e","l","o","p","m","e","n","t">>,
    <<"c","a","p","i","t","a","l"," ","d","e","v","e","l","o","p","m","e","n","t">>, <<"k","a","r","a","c","h","i"," ","d","e","v","e","l","o","p","m","e","n","t">>, <<"r","a","w","a","l","p","i","n","d","i"," ","d","e","v","e","l","o","p","m","e","n","t">>,
    <<"m","u","n","i","c","i","p","a","l">>, <<"c","o","r","p","o","r","a","t","i","o","n">>, <<"m","e","t","r","o","p","o","l","i","t","a","n">>,
    <<"c","i","t","y"," ","c","o","u","n","c","i","l">>, <<"u","n","i","o","n"," ","c","o","u","n","c","i","l">>, <<"t","o","w","n"," ","c","o","m","m","i","t","t","e","e">>,
    <<"b","o","a","r","d"," ","o","f"," ","r","e","v","e","n","u","e">>, <<"b","o","r">>, <<"n","a","d","r","a">>,
    <<"f","b","r">>, <<"s","e","c","p">>, <<"n","e","p","r","a">>,
    <<"o","g","r","a">>, <<"p","e","m","r","a">>, <<"p","t","a">>,
    <<"a","u","t","h","o","r","i","t","y">>, <<"p","u","b","l","i","c"," ","a","u","t","h","o","r","i","t","y">>, <<"u","n","i","v","e","r","s","i","t","y">>,
    <<"b","o","a","r","d"," ","o","f"," ","e","d","u","c","a","t","i","o","n">>, <<"b","i","s","e">>, <<"h","i","g","h","e","r"," ","e","d","u","c","a","t","i","o","n">>,
    <<"h","e","c">>, <<"p","u","b","l","i","c"," ","h","o","s","p","i","t","a","l">>, <<"g","o","v","e","r","n","m","e","n","t"," ","h","o","s","p","i","t","a","l">>,
    <<"d","h","o">>, <<"r","e","g","i","s","t","r","a","r">>, <<"c","o","u","r","t">>,
    <<"t","r","i","b","u","n","a","l">>
}
CRIMINAL_PATTERNS == <<
    [offense |-> "nuisance",
     keywords |-> <<<<"n","u","i","s","a","n","c","e">>, <<"n","o","i","s","e">>, <<"d","i","s","t","u","r","b","a","n","c","e">>, <<"p","u","b","l","i","c"," ","n","u","i","s","a","n","c","e">>, <<"l","o","u","d"," ","m","u","s","i","c">>>>,
     sections |-> << <<<<"P","P","C">>, <<"2","6","8">>, "Public nuisance">>,
                     <<<<"P","P","C">>, <<"2","9","0">>, "Punishment for public nuisance">> >>],
    [offense |-> "cheque_dishonour",
     keywords |-> <<<<"c","h","e","q","u","e">>, <<"c","h","e","c","k">>, <<"d","i","s","h","o","n","o","u","r">>, <<"d","i","s","h","o","n","o","r","e","d">>, <<"b","o","u","n","c","e","d">>, <<"b","o","u","n","c","e">>>>,
     sections |-> << <<<<"P","P","C">>, <<"4","8","9","-","F">>, "Dishonestly issuing a cheque">> >>],
    [offense |-> "defamation",
     keywords |-> <<<<"d","e","f","a","m","a","t","i","o","n">>, <<"d","e","f","a","m","e","d">>, <<"r","e","p","u","t","a","t","i","o","n">>, <<"s","l","a","n","d","e","r">>, <<"l","i","b","e","l">>>>,
     sections |-> << <<<<"P","P","C">>, <<"4","9","9">>, "Defamation">>,
                     <<<<"P","P","C">>, <<"5","0","0">>, "Punishment for defamation">> >>]
>>

ApplicableSection(law_name, law_short, section_number, section_title, confidence, reason, is_primary) ==
    [law_name |-> law_name, law_short |-> law_short, section_number |-> section_number,
     section_title |-> section_title, confidence |-> confidence, reason |-> reason,
     is_primary |-> is_primary]

\* CaseAnalysis(case_type=category, sub_type=None) with the dataclass defaults
CaseAnalysis(case_type) ==
    [case_type |-> case_type, sub_type |-> "None", applicable_sections |-> <<>>,
     warnings |-> <<>>, flags_for_review |-> <<>>,
     is_government_involved |-> FALSE, confidence |-> "HIGH"]

\* the review flags and warnings are the f-strings of the source: the fixed
\* text, and the law and section that are formatted into it
Message(text, law, section) == [text |-> text, law |-> law, section |-> section]
Text(text) == Message(text, <<>>, <<>>)

_get_full_law_name(short) ==
    CASE short = <<"P","P","C">> -> "Pakistan Penal Code 1860"
      [] short = <<"C","r","P","C">> -> "Code of Criminal Procedure 1898"
      [] short = <<"C","P","C">> -> "Code of Civil Procedure 1908"
      [] short = <<"C","o","n","s","t","i","t","u","t","i","o","n">> -> "Constitution of Pakistan 1973"
      [] short = <<"M","F","L","O">> -> "Muslim Family Laws Ordinance 1961"
      [] short = <<"G","W","A">> -> "Guardians and Wards Act 1890"
      [] OTHER -> "other"

\* re.search(r"\b" + re.escape(keyword) + r"\b", facts_lower) for some keyword
_detect_government(facts_lower) ==
    \E keyword \in GOVERNMENT_KEYWORDS :
        \E i \in 0..(Len(facts_lower) - Len(keyword)) :
            /\ SubSeq(facts_lower, i + 1, i + Len(keyword)) = keyword
            /\ AtWordBoundary(facts_lower, i)
            /\ AtWordBoundary(facts_lower, i + Len(keyword))

\* the patterns one of whose keywords is a substring of the facts, in table order
_detect_criminal_offenses(facts_lower) ==
    SelectSeq(CRIMINAL_PATTERNS,
              LAMBDA config : \E k \in 1..Len(config.keywords) :
                                  Contains(facts_lower, config.keywords[k]))

\* one ApplicableSection per section of each configuration, in order
RECURSIVE SectionsOf(_, _, _, _)
SectionsOf(configs, confidence, reason, is_primary) ==
    IF configs = <<>> THEN <<>>
    ELSE LET config == configs[1]
         IN  [k \in 1..Len(config.sections) |->
                 ApplicableSection(_get_full_law_name(config.sections[k][1]),
                                   config.sections[k][1], config.sections[k][2],
                                   config.sections[k][3], confidence,
                                   <<reason, config.offense>>, is_primary)]
             \o SectionsOf(Tail(configs), confidence, reason, is_primary)

\* mutant: the government check is dropped and Section 80 is always added
_analyze_legal_notice_always80(a, facts_lower) ==
    [a EXCEPT
        !.applicable_sections =
            Append(@, ApplicableSection("Code of Civil Procedure 1908", <<"C","P","C">>, <<"8","0">>, "Notice",
                        "HIGH", <<"Notice to Government/Public Authority - Section 80 CPC mandatory", "">>,
                        TRUE))
            \o SectionsOf(_detect_criminal_offenses(facts_lower), "MEDIUM",
                          "Possible cause of action", FALSE),
        !.warnings = Append(@,
            Text("Two months' notice period required before filing suit against Government"))]

_analyze_legal_notice(a, facts_lower) ==
    LET first ==
            IF a.is_government_involved
            THEN [a EXCEPT
                    !.applicable_sections = Append(@,
                        ApplicableSection("Code of Civil Procedure 1908", <<"C","P","C">>, <<"8","0">>, "Notice",
                            "HIGH", <<"Notice to Government/Public Authority - Section 80 CPC mandatory", "">>,
                            TRUE)),
                    !.warnings = Append(@,
                        Text("Two months' notice period required before filing suit against Government"))]
            ELSE [a EXCEPT
                    !.flags_for_review = Append(@,
                        Text("PRIVATE PARTY dispute: Section 80 CPC does NOT apply. Do NOT cite CPC 80."))]
    IN  [first EXCEPT
            !.applicable_sections =
                @ \o SectionsOf(_detect_criminal_offenses(facts_lower), "MEDIUM",
                                "Possible cause of action", FALSE)]

_analyze_writ(a, facts_lower) ==
    [a EXCEPT
        !.applicable_sections = Append(@,
            ApplicableSection("Constitution of Pakistan 1973", <<"C","o","n","s","t","i","t","u","t","i","o","n">>, <<"1","9","9">>,
                "Jurisdiction of High Court", "HIGH", <<"High Court writ jurisdiction", "">>, TRUE)),
        !.sub_type = "general_writ"]

\* mutant: only the facts are scanned for anticipatory-bail vocabulary, not the
\* category label
_analyze_bail_facts_only(a, facts_lower, category_lower) ==
    IF \/ Contains(facts_lower, <<"p","r","e","-","a","r","r","e","s","t">>)
       \/ Contains(facts_lower, <<"p","r","e"," ","a","r","r","e","s","t">>)
       \/ Contains(facts_lower, <<"a","n","t","i","c","i","p","a","t","o","r","y">>)
    THEN [a EXCEPT
            !.applicable_sections = Append(@,
                ApplicableSection("Code of Criminal Procedure 1898", <<"C","r","P","C">>, <<"4","9","8">>,
                    "Power to direct admission to bail", "HIGH",
                    <<"Pre-arrest/anticipatory bail", "">>, TRUE))]
    ELSE [a EXCEPT
            !.applicable_sections = @ \o <<
                ApplicableSection("Code of Criminal Procedure 1898", <<"C","r","P","C">>, <<"4","9","7">>,
                    "When bail may be taken in case of non-bailable offence", "HIGH",
                    <<"Post-arrest bail", "">>, TRUE),
                ApplicableSection("Code of Criminal Procedure 1898", <<"C","r","P","C">>, <<"4","9","8">>,
                    "Power to direct admission to bail", "MEDIUM",
                    <<"Supplementary bail discretion (post-arrest)", "">>, FALSE) >>]

_analyze_bail(a, facts_lower, category_lower) ==
    IF \/ Contains(facts_lower, <<"p","r","e","-","a","r","r","e","s","t">>)
       \/ Contains(facts_lower, <<"p","r","e"," ","a","r","r","e","s","t">>)
       \/ Contains(facts_lower, <<"a","n","t","i","c","i","p","a","t","o","r","y">>)
       \/ Contains(category_lower, <<"p","r","e","-","a","r","r","e","s","t">>)
       \/ Contains(category_lower, <<"p","r","e"," ","a","r","r","e","s","t">>)
       \/ Contains(category_lower, <<"a","n","t","i","c","i","p","a","t","o","r","y">>)
    THEN [a EXCEPT
            !.applicable_sections = Append(@,
                ApplicableSection("Code of Criminal Procedure 1898", <<"C","r","P","C">>, <<"4","9","8">>,
                    "Power to direct admission to bail", "HIGH",
                    <<"Pre-arrest/anticipatory bail", "">>, TRUE))]
    ELSE [a EXCEPT
            !.applicable_sections = @ \o <<
                ApplicableSection("Code of Criminal Procedure 1898", <<"C","r","P","C">>, <<"4","9","7">>,
                    "When bail may be taken in case of non-bailable offence", "HIGH",
                    <<"Post-arrest bail", "">>, TRUE),
                ApplicableSection("Code of Criminal Procedure 1898", <<"C","r","P","C">>, <<"4","9","8">>,
                    "Power to direct admission to bail", "MEDIUM",
                    <<"Supplementary bail discretion (post-arrest)", "">>, FALSE) >>]

_analyze_recovery(a, facts_lower) ==
    [a EXCEPT
        !.applicable_sections = Append(@,
            ApplicableSection("Code of Civil Procedure 1908", <<"C","P","C">>, <<"9">>,
                "Courts to try all civil suits unless barred", "MEDIUM",
                <<"Civil recovery jurisdiction", "">>, TRUE))]

_analyze_divorce(a, facts_lower) ==
    [a EXCEPT
        !.applicable_sections = Append(@,
            ApplicableSection("Muslim Family Laws Ordinance 1961", <<"M","F","L","O">>, <<"7">>,
                "Talaq", "MEDIUM", <<"Divorce/Talaq procedure", "">>, TRUE))]

_analyze_custody(a, facts_lower) ==
    [a EXCEPT
        !.applicable_sections = @ \o <<
            ApplicableSection("Guardians and Wards Act 1890", <<"G","W","A">>, <<"7">>,
                "Power of the court to make order as to guardianship", "MEDIUM",
                <<"Child custody petition", "">>, TRUE),
            ApplicableSection("Guardians and Wards Act 1890", <<"G","W","A">>, <<"1","7">>,
                "Matters to be considered by the court in appointing guardian", "MEDIUM",
                <<"Custody factors and welfare assessment", "">>, FALSE),
            ApplicableSection("Guardians and Wards Act 1890", <<"G","W","A">>, <<"2","5">>,
                "Title of guardian to custody of ward", "MEDIUM",
                <<"Custody enforcement", "">>, FALSE) >>]

_analyze_quashing_fir(a, facts_lower) ==
    [a EXCEPT
        !.applicable_sections = @ \o <<
            ApplicableSection("Code of Criminal Procedure 1898", <<"C","r","P","C">>, <<"5","6","1","-","A">>,
                "Inherent powers of High Court", "MEDIUM",
                <<"Quashing FIR (inherent powers)", "">>, TRUE),
            ApplicableSection("Constitution of Pakistan 1973", <<"C","o","n","s","t","i","t","u","t","i","o","n">>, <<"1","9","9">>,
                "Jurisdiction of High Court", "MEDIUM",
                <<"Constitutional jurisdiction for quashing relief", "">>, FALSE) >>]

_analyze_stay(a, facts_lower) ==
    [a EXCEPT
        !.applicable_sections = Append(@,
            ApplicableSection("Code of Civil Procedure 1908", <<"C","P","C">>, <<"1","5","1">>,
                "Saving of inherent powers of Court", "MEDIUM", <<"Stay application", "">>, TRUE))]

_add_sections_from_pattern(a, facts_lower, key, primary) ==
    [a EXCEPT
        !.applicable_sections =
            @ \o SectionsOf(SelectSeq(CRIMINAL_PATTERNS, LAMBDA config : config.offense = key),
                            "HIGH", "Detected offense", primary)]

\* mutant: without a detected offense the analysis is returned as it came
_analyze_general_silent(a, facts_lower) ==
    LET offenses == _detect_criminal_offenses(facts_lower)
    IN  IF offenses = <<>>
        THEN a
        ELSE [a EXCEPT
                !.applicable_sections =
                    @ \o SectionsOf(offenses, "MEDIUM", "Detected from facts", TRUE)]

_analyze_general(a, facts_lower) ==
    LET offenses == _detect_criminal_offenses(facts_lower)
    IN  IF offenses = <<>>
        THEN [a EXCEPT
                !.flags_for_review = Append(@,
                    Text("Could not automatically determine applicable sections. Manual review required.")),
                !.confidence = "UNCERTAIN"]
        ELSE [a EXCEPT
                !.applicable_sections =
                    @ \o SectionsOf(offenses, "MEDIUM", "Detected from facts", TRUE)]

analyze_case(cat_label, facts_text) ==
    LET facts_lower == Lower(facts_text)
        a == [CaseAnalysis(cat_label) EXCEPT
                 !.is_government_involved = _detect_government(facts_lower)]
        cat == Lower(cat_label)
    IN  IF Contains(cat, <<"n","o","t","i","c","e">>) THEN _analyze_legal_notice(a, facts_lower)
        ELSE IF Contains(cat, <<"w","r","i","t">>) THEN _analyze_writ(a, facts_lower)
        ELSE IF Contains(cat, <<"b","a","i","l">>) THEN _analyze_bail(a, facts_lower, cat)
        ELSE IF Contains(cat, <<"r","e","c","o","v","e","r","y">>) THEN _analyze_recovery(a, facts_lower)
        ELSE IF Contains(cat, <<"d","i","v","o","r","c","e">>) \/ Contains(cat, <<"t","a","l","a","q">>) \/ Contains(cat, <<"k","h","u","l","a">>)
             THEN _analyze_divorce(a, facts_lower)
        ELSE IF Contains(cat, <<"c","u","s","t","o","d","y">>) \/ Contains(cat, <<"h","i","z","a","n","a","t">>)
             THEN _analyze_custody(a, facts_lower)
        ELSE IF Contains(cat, <<"q","u","a","s","h","i","n","g">>) \/ Contains(cat, <<"f","i","r">>)
             THEN _analyze_quashing_fir(a, facts_lower)
        ELSE IF Contains(cat, <<"s","t","a","y">>) THEN _analyze_stay(a, facts_lower)
        ELSE IF Contains(cat, <<"c","h","e","q","u","e">>) \/ Contains(cat, <<"d","i","s","h","o","n","o","u","r">>)
             THEN _add_sections_from_pattern(a, facts_lower, "cheque_dishonour", TRUE)
        ELSE _analyze_general(a, facts_lower)

get_applicable_sections(cat_label, facts_text) == analyze_case(cat_label, facts_text)

(***************************************************************************)
(* Requests: a category label and free-text facts.  The facts are the      *)
(* words of a small vocabulary joined by single blanks.                    *)
(***************************************************************************)
MaxFactWords == 2

RECURSIVE WordSeqs(_, _)
WordSeqs(words, n) ==
    IF n = 0 THEN {<<>>}
    ELSE LET shorter == WordSeqs(words, n - 1)
         IN  shorter \cup {Append(q, w) : q \in {x \in shorter : Len(x) = n - 1}, w \in words}

Texts(words, n) == {Join(q, <<" ">>) : q \in WordSeqs(words, n)}

\* words of facts in which every party is a private individual: the neighbour,
\* the complaint, and the clock times "11 PM" and "3 AM" of the test's facts
PrivateWords == {<<"n","e","i","g","h","b","o","r">>, <<"n","o","i","s","e">>, <<"1","1">>, <<"P","M">>, <<"A","M">>}

Init ==
    LET NoAnalysis == CaseAnalysis(<<>>)
    IN  (
    /\ pc = "idle"
    /\ category = <<>>
    /\ facts = <<>>
    /\ analysis = NoAnalysis
    /\ draft = <<>>
    /\ validation = [is_valid |-> TRUE, draft |-> <<>>, original_draft |-> <<>>,
                    sections_added |-> <<>>, sections_removed |-> <<>>,
                    sections_correct |-> <<>>, warnings |-> <<>>,
                    flags_for_review |-> <<>>, confidence |-> "HIGH"]
    /\ corpus = <<>>
    /\ query = [fn |-> "none"]
    /\ result = [found |-> FALSE]
    )

\* a caller hands in a category and facts
Request(cats, texts) ==
    /\ pc = "idle"
    /\ \E c \in cats, f \in texts :
          /\ category' = c
          /\ facts' = f
    /\ pc' = "requested"
    /\ UNCHANGED <<analysis, draft, validation, corpus, query, result>>

\* analysis = get_applicable_sections(category, facts)
AnalyzeCase ==
    /\ pc = "requested"
    /\ analysis' = get_applicable_sections(category, facts)
    /\ pc' = "analysed"
    /\ UNCHANGED <<category, facts, draft, validation, corpus, query, result>>

RulesRequest ==
    LET \* the UI labels of drafter.py and legacy keys of search_orchestrator.py
        Categories == {
            <<"L","e","g","a","l"," ","N","o","t","i","c","e">>, <<"l","e","g","a","l","_","n","o","t","i","c","e">>,
            <<"B","a","i","l"," ","P","e","t","i","t","i","o","n"," ","(","P","o","s","t","-","A","r","r","e","s","t",")">>, <<"B","a","i","l"," ","P","e","t","i","t","i","o","n"," ","(","P","r","e","-","A","r","r","e","s","t",")">>, <<"B","a","i","l"," ","P","e","t","i","t","i","o","n">>,
            <<"b","a","i","l","_","p","r","e","_","a","r","r","e","s","t">>, <<"A","n","t","i","c","i","p","a","t","o","r","y"," ","B","a","i","l">>,
            <<"W","r","i","t"," ","P","e","t","i","t","i","o","n">>, <<"S","u","i","t"," ","f","o","r"," ","R","e","c","o","v","e","r","y">>, <<"D","i","v","o","r","c","e"," ","D","e","e","d"," ","(","T","a","l","a","q","-","n","a","m","a",")">>,
            <<"C","u","s","t","o","d","y"," ","P","e","t","i","t","i","o","n">>, <<"C","h","e","q","u","e"," ","D","i","s","h","o","n","o","u","r">>, <<"Q","u","a","s","h","i","n","g"," ","F","I","R">>,
            <<"S","t","a","y"," ","A","p","p","l","i","c","a","t","i","o","n">>, <<"R","e","n","t"," ","A","g","r","e","e","m","e","n","t">>
        }
        FactWords ==
            LET BailWords == {<<"a","n","t","i","c","i","p","a","t","o","r","y">>, <<"p","r","e","-","a","r","r","e","s","t">>, <<"P","r","e">>, <<"a","r","r","e","s","t">>}
                GovernmentWords == {<<"W","A","P","D","A">>}
            IN  (
                     PrivateWords \cup GovernmentWords \cup BailWords
            )
    IN  (
                Request(Categories, Texts(FactWords, MaxFactWords))
    )

NextRules == RulesRequest \/ AnalyzeCase

SpecRules == Init /\ [][NextRules]_vars

(***************************************************************************)
(* Claims about the Case Classifier (checked under SpecRules)              *)
(***************************************************************************)
IsCpc80(sec) == sec.law_short = <<"C","P","C">> /\ sec.section_number = <<"8","0">>

HasCpc80(a) == \E k \in 1..Len(a.applicable_sections) : IsCpc80(a.applicable_sections[k])

ForbidsCpc80(a) ==
    \E k \in 1..Len(a.flags_for_review) :
        a.flags_for_review[k].text =
            "PRIVATE PARTY dispute: Section 80 CPC does NOT apply. Do NOT cite CPC 80."

IsNoticeCategory(c) == Contains(Lower(c), <<"n","o","t","i","c","e">>)

\* C1: for a category containing 'notice', CPC Section 80 is among the
\* applicable sections if and only if a government entity is involved, and
\* when none is, no CPC 80 entry is present and a review flag forbids citing it.
C1_Section80IffGovernment ==
    (pc = "analysed" /\ IsNoticeCategory(category)) =>
        /\ HasCpc80(analysis) <=> analysis.is_government_involved
        /\ ~analysis.is_government_involved =>
              (~HasCpc80(analysis) /\ ForbidsCpc80(analysis))

C1_Witness ==
    /\ pc = "analysed"
    /\ category = <<"L","e","g","a","l"," ","N","o","t","i","c","e">>
    /\ facts = <<"n","e","i","g","h","b","o","r"," ","n","o","i","s","e">>
    /\ ~analysis.is_government_involved
    /\ ~HasCpc80(analysis)
    /\ ForbidsCpc80(analysis)
    /\ Len(analysis.applicable_sections) = 2

\* sections_used of the test: f"{s.law_short} Section {s.section_number}"
extract_sections_used_from_analysis(a) ==
    [k \in 1..Len(a.applicable_sections) |->
        a.applicable_sections[k].law_short \o <<" ","S","e","c","t","i","o","n"," ">>
            \o a.applicable_sections[k].section_number]

\* C2: for category 'Legal Notice', facts made only of the private case's words
\* (the neighbour, the noise, the clock times) give is_government_involved =
\* FALSE and no 'CPC Section 80' among the sections; facts naming WAPDA give
\* is_government_involved = TRUE.
C2_PrivateNoticeNotGovernment ==
    (pc = "analysed" /\ category = <<"L","e","g","a","l"," ","N","o","t","i","c","e">>) =>
        /\ facts \in Texts(PrivateWords, MaxFactWords) =>
              /\ ~analysis.is_government_involved
              /\ \A k \in 1..Len(analysis.applicable_sections) :
                    ~Contains(extract_sections_used_from_analysis(analysis)[k], <<"C","P","C"," ","S","e","c","t","i","o","n"," ","8","0">>)
        /\ Contains(facts, <<"W","A","P","D","A">>) => analysis.is_government_involved

IsBailCategory(c) ==
    /\ Contains(Lower(c), <<"b","a","i","l">>)
    /\ ~Contains(Lower(c), <<"n","o","t","i","c","e">>)
    /\ ~Contains(Lower(c), <<"w","r","i","t">>)

AnticipatoryVocabulary == {<<"a","n","t","i","c","i","p","a","t","o","r","y">>, <<"p","r","e","-","a","r","r","e","s","t">>, <<"p","r","e"," ","a","r","r","e","s","t">>}

MentionsAnticipatory(text) == \E v \in AnticipatoryVocabulary : Contains(Lower(text), v)

Primaries(a) ==
    {<<a.applicable_sections[k].law_short, a.applicable_sections[k].section_number>> :
        k \in {j \in 1..Len(a.applicable_sections) : a.applicable_sections[j].is_primary}}

\* C10: for a bail category, when the category label or the facts contain
\* anticipatory-bail vocabulary the only primary section is CrPC 498 (and
\* CrPC 497 is not primary); otherwise the only primary section is CrPC 497.
C10_BailPrimarySection ==
    (pc = "analysed" /\ IsBailCategory(category)) =>
        IF MentionsAnticipatory(category) \/ MentionsAnticipatory(facts)
        THEN Primaries(analysis) = {<<<<"C","r","P","C">>, <<"4","9","8">>>>}
        ELSE Primaries(analysis) = {<<<<"C","r","P","C">>, <<"4","9","7">>>>}

C10_Witness ==
    /\ pc = "analysed"
    /\ category = <<"B","a","i","l"," ","P","e","t","i","t","i","o","n">>
    /\ facts = <<"P","r","e"," ","a","r","r","e","s","t">>
    /\ Primaries(analysis) = {<<<<"C","r","P","C">>, <<"4","9","8">>>>}
    /\ Len(analysis.applicable_sections) = 1

(***************************************************************************)
(* Reference Parser & Normalizer: backend/utils/law_lookup.py and          *)
(* backend/routers/law_resolve.py                                          *)
(***************************************************************************)
\* Optional[...]: None, or a value
None == [some |-> FALSE, value |-> 0]
Some(v) == [some |-> TRUE, value |-> v]

_ROMAN_MAP == [c \in {"I","V","X","L","C","D","M"} |->
                 CASE c = "I" -> 1 [] c = "V" -> 5 [] c = "X" -> 10 [] c = "L" -> 50
                   [] c = "C" -> 100 [] c = "D" -> 500 [] c = "M" -> 1000]

\* the loop of law_lookup.roman_to_int over reversed(s): k runs from the last
\* character to the first; prev is the value of the character just handled
RECURSIVE RomanLoop(_, _, _, _)
RomanLoop(s, k, total, prev) ==
    IF k = 0 THEN total
    ELSE LET val == _ROMAN_MAP[s[k]]
         IN  IF val < prev THEN RomanLoop(s, k - 1, total - val, val)
             ELSE RomanLoop(s, k - 1, total + val, val)

\* mutant: every symbol is added, the subtractive rule is lost
roman_to_int_additive(raw) ==
    LET s == Upper(Strip(raw))
        RECURSIVE sum(_)
        sum(k) == IF k = 0 THEN 0 ELSE _ROMAN_MAP[s[k]] + sum(k - 1)
    IN  IF s = <<>> \/ ~(\A k \in 1..Len(s) : s[k] \in DOMAIN _ROMAN_MAP) THEN None
        ELSE Some(sum(Len(s)))

\* law_lookup.roman_to_int
roman_to_int(raw) ==
    IF raw = <<>> THEN None
    ELSE LET s == Upper(Strip(raw))
         IN  IF ~FullMatch(Plus(In(DOMAIN _ROMAN_MAP)), s) THEN None
             ELSE LET total == RomanLoop(s, Len(s), 0, 0)
                  IN  IF total > 0 THEN Some(total) ELSE None

\* the loop of law_resolve.roman_to_int: prev moves only when a value is added
RECURSIVE ResolveRomanLoop(_, _, _, _)
ResolveRomanLoop(s, k, total, prev) ==
    IF k = 0 THEN Some(total)
    ELSE IF s[k] \notin DOMAIN _ROMAN_MAP THEN None
    ELSE LET val == _ROMAN_MAP[s[k]]
         IN  IF val < prev THEN ResolveRomanLoop(s, k - 1, total - val, prev)
             ELSE ResolveRomanLoop(s, k - 1, total + val, val)

\* law_resolve.roman_to_int
resolve_roman_to_int(raw) ==
    LET roman == Strip(Upper(raw))
    IN  IF roman = <<>> THEN None ELSE ResolveRomanLoop(roman, Len(roman), 0, 0)

\* re.sub(r"\s+", "", s or "").strip()
_compact(s) == Strip(SelectSeq(s, LAMBDA c : c \notin SpaceSet))

\* re.sub(r"^(\d+)-([A-Za-z])$", r"\1\2", s)
FuseHyphenLetter(s) ==
    IF FullMatch(Cat(<<Plus(Digit), Lit(<<"-">>), In(LetterSet)>>), s)
    THEN SubSeq(s, 1, Len(s) - 2) \o <<s[Len(s)]>>
    ELSE s

\* boundaries <<i, e1, ..., en>> of the first way, in backtracking order, to
\* match the parts one after another from offset i (and, if anchored, to end
\* at the end of s): the groups of a match; <<>> when there is none
RECURSIVE Path(_, _, _, _)
Path(parts, s, i, anchored) ==
    IF parts = <<>> THEN (IF anchored /\ i # Len(s) THEN <<>> ELSE <<i>>)
    ELSE LET RECURSIVE try(_)
             try(q) ==
                 IF q = <<>> THEN <<>>
                 ELSE LET rest == Path(Tail(parts), s, q[1], anchored)
                      IN  IF rest # <<>> THEN <<i>> \o rest ELSE try(Tail(q))
         IN  try(Ends(parts[1], s, i))

\* the text of the k-th part of a match with the boundaries p
Group(s, p, k) == SubSeq(s, p[k] + 1, p[k + 1])

\* re.finditer with groups: the boundaries (see Path) of the successive matches
RECURSIVE FindPaths(_, _, _), PathsAt(_, _, _)
PathsAt(parts, s, i) ==
    IF i < 0 THEN <<>>
    ELSE LET p == Path(parts, s, i, FALSE)
         IN  <<p>> \o FindPaths(parts, s, IF p[Len(p)] > i THEN p[Len(p)] ELSE i + 1)

FindPaths(parts, s, from) == PathsAt(parts, s, FirstStart(Cat(parts), s, from))

\* the if-chain of normalize_section_number on the cleaned text s1
Canonical(s1) ==
    LET \* (\d+)\((\d+)\)
        paren == Path(<<Plus(Digit), Lit(<<"(">>), Plus(Digit), Lit(<<")">>)>>, s1, 0, TRUE)
        \* (\d+)-(\d+)
        sub == Path(<<Plus(Digit), Lit(<<"-">>), Plus(Digit)>>, s1, 0, TRUE)
        \* (\d+)\((II|2)\)
        two == Path(<<Plus(Digit), Lit(<<"(">>), Alt(<<Lit(<<"I","I">>), Lit(<<"2">>)>>), Lit(<<")">>)>>, s1, 0, TRUE)
        \* (\d+)(II|2)
        short == Path(<<Plus(Digit), Alt(<<Lit(<<"I","I">>), Lit(<<"2">>)>>)>>, s1, 0, TRUE)
    IN  IF paren # <<>> THEN Group(s1, paren, 1) \o <<"(">> \o Group(s1, paren, 3) \o <<")">>
        ELSE IF sub # <<>> THEN Group(s1, sub, 1) \o <<"(">> \o Group(s1, sub, 3) \o <<")">>
        ELSE IF two # <<>> THEN Group(s1, two, 1) \o <<"(","2",")">>
        ELSE IF short # <<>> THEN Group(s1, short, 1) \o <<"(","2",")">>
        ELSE s1

\* mutant: the dots are removed only after the hyphen-letter rule has run
normalize_section_number_late_dots(raw) ==
    IF Strip(raw) = <<>> THEN <<>>
    ELSE Canonical(ReplaceChar(FuseHyphenLetter(_compact(Strip(raw))), ".", <<>>))

\* law_lookup.normalize_section_number: an empty or blank number is "";
\* otherwise spaces and dots go, 22-A becomes 22A, and the if-chain runs
normalize_section_number(raw) ==
    IF Strip(raw) = <<>> THEN <<>>
    ELSE Canonical(FuseHyphenLetter(ReplaceChar(_compact(Strip(raw)), ".", <<>>)))

\* law_resolve.normalize_section_number
resolve_normalize_section_number(raw) ==
    LET \* re.sub(r"(\d+)-([A-Za-z])$", r"\1\2", s): the pattern is searched, not
        \* anchored at the start, and $ ends the string
        ResolveFuseHyphenLetter(s) ==
            IF Len(s) >= 3 /\ s[Len(s)] \in LetterSet /\ s[Len(s) - 1] = "-" /\ s[Len(s) - 2] \in DigitSet
            THEN SubSeq(s, 1, Len(s) - 2) \o <<s[Len(s)]>>
            ELSE s
        \* re.sub(r"(\d+)([a-z])$", lambda m: m.group(1) + m.group(2).upper(), s)
        UpperTrailingLetter(s) ==
            IF Len(s) >= 2 /\ s[Len(s)] \in LowerSet /\ s[Len(s) - 1] \in DigitSet
            THEN SubSeq(s, 1, Len(s) - 1) \o Upper(<<s[Len(s)]>>)
            ELSE s
        s == SelectSeq(Strip(raw), LAMBDA c : c \notin SpaceSet)
    IN  UpperTrailingLetter(ResolveFuseHyphenLetter(ResolveFuseHyphenLetter(s)))

\* law_lookup.section_variants, the sorted list as a set
section_variants(raw) ==
    LET \* the variants of the normalized number base
        VariantsOf(base) ==
            LET letter == Path(<<Plus(Digit), In(LetterSet)>>, base, 0, TRUE)
                paren == Path(<<Plus(Digit), Lit(<<"(">>), Plus(Digit), Lit(<<")">>)>>, base, 0, TRUE)
            IN  IF base = <<>> THEN {}
                ELSE {base}
                     \cup (IF letter # <<>>
                           THEN {Group(base, letter, 1) \o <<"-">> \o Upper(Group(base, letter, 2)),
                                 Group(base, letter, 1) \o <<"-">> \o Lower(Group(base, letter, 2))}
                           ELSE {})
                     \cup (IF paren # <<>>
                           THEN {Group(base, paren, 1) \o <<"-">> \o Group(base, paren, 3),
                                 Group(base, paren, 1) \o <<"(","I","I",")">>,
                                 Group(base, paren, 1) \o <<"I","I">>}
                           ELSE {})
    IN  (
                         VariantsOf(normalize_section_number(raw))
    )

(***************************************************************************)
(* The normalizer and the roman-numeral conversion as operations           *)
(***************************************************************************)
MaxRawLen == 4
MaxOrder == 51

\* raw section numbers: the texts over one character of every class a number
\* is written with (digits, 2 being the sub-clause digit; the upper-case I of
\* the "II" shorthand; a lower-case letter; hyphen, dot, space, parentheses),
\* and the examples of the docstrings
RawNumbers ==
    LET RawAlphabet == {"1", "2", "I", "a", "-", ".", " ", "(", ")"}
        DocNumbers == {<<"1","2","(","I","I",")">>, <<"1","2","(","2",")">>, <<"4","8","9","-","F">>, <<"4","8","9","f">>, <<"4","8","9"," ","F">>, <<"2","2","-","A">>, <<"5","6","1","-","A">>}
    IN  UNION {[1..n -> RawAlphabet] : n \in 0..MaxRawLen} \cup DocNumbers

\* the standard subtractive-notation numeral of v, 1 <= v <= 89
ToRoman(v) ==
    LET tens == <<<<"X">>, <<"X","X">>, <<"X","X","X">>, <<"X","L">>, <<"L">>, <<"L","X">>, <<"L","X","X">>, <<"L","X","X","X">>>>
        units == <<<<"I">>, <<"I","I">>, <<"I","I","I">>, <<"I","V">>, <<"V">>, <<"V","I">>, <<"V","I","I">>, <<"V","I","I","I">>, <<"I","X">>>>
    IN  (IF v \div 10 = 0 THEN <<>> ELSE tens[v \div 10])
            \o (IF v % 10 = 0 THEN <<>> ELSE units[v % 10])

MaxSymbols == 3

\* what the group ([0-9]+|[IVXLCDM]+) hands to roman_to_int: the standard
\* numerals of the orders in upper and in lower case, and every string of up
\* to MaxSymbols numeral symbols
OrderNumerals ==
    {ToRoman(v) : v \in 1..MaxOrder} \cup {Lower(ToRoman(v)) : v \in 1..MaxOrder}
        \cup UNION {[1..n -> DOMAIN _ROMAN_MAP] : n \in 1..MaxSymbols}

\* law_lookup.normalize_section_number(raw)
LookupNormalize ==
    /\ pc = "idle"
    /\ \E raw \in RawNumbers :
          /\ query' = [fn |-> "normalize_section_number", module |-> "law_lookup", raw |-> raw]
          /\ result' = [found |-> TRUE, value |-> normalize_section_number(raw)]
    /\ pc' = "normalized"
    /\ UNCHANGED <<category, facts, analysis, draft, validation, corpus>>

\* law_resolve.normalize_section_number(raw)
ResolveNormalize ==
    /\ pc = "idle"
    /\ \E raw \in RawNumbers :
          /\ query' = [fn |-> "normalize_section_number", module |-> "law_resolve", raw |-> raw]
          /\ result' = [found |-> TRUE, value |-> resolve_normalize_section_number(raw)]
    /\ pc' = "normalized"
    /\ UNCHANGED <<category, facts, analysis, draft, validation, corpus>>

\* the canonical key is handed to the same function once more, as
\* find_section does when it normalizes the number and then its variants
LookupNormalizeAgain ==
    /\ pc = "normalized"
    /\ query.module = "law_lookup"
    /\ result' = [found |-> TRUE, value |-> result.value,
                  again |-> normalize_section_number(result.value)]
    /\ pc' = "renormalized"
    /\ UNCHANGED <<category, facts, analysis, draft, validation, corpus, query>>

ResolveNormalizeAgain ==
    /\ pc = "normalized"
    /\ query.module = "law_resolve"
    /\ result' = [found |-> TRUE, value |-> result.value,
                  again |-> resolve_normalize_section_number(result.value)]
    /\ pc' = "renormalized"
    /\ UNCHANGED <<category, facts, analysis, draft, validation, corpus, query>>

\* law_lookup.roman_to_int(raw)
LookupRoman ==
    /\ pc = "idle"
    /\ \E raw \in OrderNumerals :
          /\ query' = [fn |-> "roman_to_int", module |-> "law_lookup", raw |-> raw]
          /\ result' = [found |-> TRUE, value |-> roman_to_int(raw)]
    /\ pc' = "converted"
    /\ UNCHANGED <<category, facts, analysis, draft, validation, corpus>>

\* law_resolve.roman_to_int(raw)
ResolveRoman ==
    /\ pc = "idle"
    /\ \E raw \in OrderNumerals :
          /\ query' = [fn |-> "roman_to_int", module |-> "law_resolve", raw |-> raw]
          /\ result' = [found |-> TRUE, value |-> resolve_roman_to_int(raw)]
    /\ pc' = "converted"
    /\ UNCHANGED <<category, facts, analysis, draft, validation, corpus>>

NextNormalizer ==
    \/ LookupNormalize \/ ResolveNormalize
    \/ LookupNormalizeAgain \/ ResolveNormalizeAgain
    \/ LookupRoman \/ ResolveRoman

SpecNormalizer == Init /\ [][NextNormalizer]_vars

(***************************************************************************)
(* Claims about the normalizer (checked under SpecNormalizer)              *)
(***************************************************************************)
\* C8: normalize_section_number is idempotent, in law_lookup and in
\* law_resolve: normalizing the canonical key of any string over digits,
\* letters, hyphen, dot, space and parentheses gives that key again.
C8_NormalizeIdempotent ==
    pc = "renormalized" => result.again = result.value

C8_Witness ==
    /\ pc = "renormalized"
    /\ query.module = "law_lookup"
    /\ query.raw = <<"1","-","2">>
    /\ result.value = <<"1","(","2",")">>
    /\ result.again = <<"1","(","2",")">>

\* C9: for every v in 1..MaxOrder, roman_to_int of the standard numeral of v,
\* in upper or in lower case, is v (in law_lookup and in law_resolve).
C9_RomanRoundTrip ==
    pc = "converted" =>
        \A v \in 1..MaxOrder :
            Upper(query.raw) = ToRoman(v) => result.value = Some(v)

C9_Witness ==
    /\ pc = "converted"
    /\ query.module = "law_lookup"
    /\ query.raw = <<"x","x","x","i","x">>
    /\ result.value = Some(39)

(***************************************************************************)
(* Law Lookup: backend/utils/law_lookup.py, class LawLookup                *)
(***************************************************************************)

LawBlock(row, kind) ==
    [law_name |-> row.law_name, kind |-> kind, section_number |-> row.section_number,
     section_title |-> row.section_title, section_text |-> row.section_text,
     source_file |-> row.source_file]

\* the text between the % signs of the LIKE pattern; empty for "%"
_law_name_like(law_hint) ==
    LET hint == Upper(law_hint)
    IN  IF hint = <<"C","P","C">> THEN <<"C","i","v","i","l"," ","P","r","o","c","e","d","u","r","e">>
        ELSE IF hint = <<"C","R","P","C">> THEN <<"C","r","i","m","i","n","a","l"," ","P","r","o","c","e","d","u","r","e">>
        ELSE IF hint = <<"P","P","C">> THEN <<"P","e","n","a","l"," ","C","o","d","e">>
        ELSE IF hint \in {<<"C","O","N","S","T">>, <<"C","O","N","S","T","I","T","U","T","I","O","N">>} THEN <<"C","o","n","s","t","i","t","u","t","i","o","n">>
        ELSE IF hint = <<"Q","S","O">> THEN <<"S","h","a","h","a","d","a","t">>
        ELSE IF hint = <<"M","F","L","O">> THEN <<"M","u","s","l","i","m"," ","F","a","m","i","l","y"," ","L","a","w","s">>
        ELSE <<>>

\* SELECT ... FROM law_sections WHERE law_name LIKE ?  (LIKE ignores case)
SelectLawNameLike(rows, law_like) ==
    SelectSeq(rows, LAMBDA row : Contains(Lower(row.law_name), Lower(law_like)))

\* mutant: a row of equal text length replaces the best one (last seen wins)
PreferLonger_last_seen(rows) ==
    LET RECURSIVE loop(_, _)
        loop(k, best) ==
            IF k > Len(rows) THEN best
            ELSE IF Len(rows[k].section_text) >= Len(rows[best].section_text)
                 THEN loop(k + 1, k)
                 ELSE loop(k + 1, best)
    IN  IF rows = <<>> THEN None ELSE Some(rows[loop(2, 1)])

\* the loop "if best is None or text_len > best[0]": the first row of the
\* greatest text length
PreferLonger(rows) ==
    LET RECURSIVE loop(_, _)
        loop(k, best) ==
            IF k > Len(rows) THEN best
            ELSE IF Len(rows[k].section_text) > Len(rows[best].section_text)
                 THEN loop(k + 1, k)
                 ELSE loop(k + 1, best)
    IN  IF rows = <<>> THEN None ELSE Some(rows[loop(2, 1)])

\* LawLookup.find_section over the table db
\* "if not best: return None", else the LawBlock of the best row
BlockOf(best, kind) == IF ~best.some THEN None ELSE Some(LawBlock(best.value, kind))

find_section(db, law_hint, raw_section_number) ==
    LET \* find_section once wanted_norm and variants are computed
        FindNormalized(wanted_norm, variants) ==
            IF wanted_norm = <<>> THEN None
            ELSE BlockOf(PreferLonger(SelectSeq(SelectLawNameLike(db, _law_name_like(law_hint)),
                                                LAMBDA row :
                                                    \/ normalize_section_number(row.section_number) = wanted_norm
                                                    \/ row.section_number \in variants)),
                         "section")
    IN  (
    FindNormalized(normalize_section_number(raw_section_number),
                   section_variants(raw_section_number))
    )

\* LawLookup.find_cpc_order_rule over the table db
find_cpc_order_rule(db, order_no, rule_no) ==
    LET candidates == SelectLawNameLike(db, _law_name_like(<<"C","P","C">>))
        o == IntToStr(order_no)
        r == IntToStr(rule_no)
        In2(sub, row) == \/ Contains(Lower(row.section_title), sub)
                         \/ Contains(Lower(row.section_text), sub)
        matching == SelectSeq(candidates, LAMBDA row :
                        /\ In2(<<"o","r","d","e","r">>, row) /\ In2(<<"r","u","l","e">>, row)
                        /\ In2(<<"o","r","d","e","r"," ">> \o o, row)
                        /\ In2(<<"r","u","l","e"," ">> \o r, row))
    IN  BlockOf(PreferLonger(matching), "order_rule")

\* _SECTION_PATTERNS (re.IGNORECASE: matched against the lower-cased text);
\* part 4 is group 1 and part 6 is group 2
\* \b(?:u/s|under\s+section|section|s\.)\s*([0-9]+(?:\([0-9]+\)|[A-Za-z]|-[A-Za-z]|-F|F|II)?)\s*(CPC|CrPC|PPC|CONST|CONSTITUTION|QSO|MFLO)\b
\* \b(?:article|art\.)\s*([0-9]+[A-Za-z]?)\s*(CONSTITUTION|CONST)\b
_SECTION_PATTERNS == <<
    <<WB,
      Alt(<<Lit(<<"u","/","s">>), Cat(<<Lit(<<"u","n","d","e","r">>), Plus(Ws), Lit(<<"s","e","c","t","i","o","n">>)>>), Lit(<<"s","e","c","t","i","o","n">>), Lit(<<"s",".">>)>>),
      Star(Ws),
      Cat(<<Plus(Digit),
            Opt(Alt(<<Cat(<<Lit(<<"(">>), Plus(Digit), Lit(<<")">>)>>), In(LowerSet),
                      Cat(<<Lit(<<"-">>), In(LowerSet)>>), Lit(<<"-","f">>), Lit(<<"f">>), Lit(<<"i","i">>)>>))>>),
      Star(Ws),
      Alt(<<Lit(<<"c","p","c">>), Lit(<<"c","r","p","c">>), Lit(<<"p","p","c">>), Lit(<<"c","o","n","s","t">>), Lit(<<"c","o","n","s","t","i","t","u","t","i","o","n">>),
            Lit(<<"q","s","o">>), Lit(<<"m","f","l","o">>)>>),
      WB>>,
    <<WB,
      Alt(<<Lit(<<"a","r","t","i","c","l","e">>), Lit(<<"a","r","t",".">>)>>),
      Star(Ws),
      Cat(<<Plus(Digit), Opt(In(LowerSet))>>),
      Star(Ws),
      Alt(<<Lit(<<"c","o","n","s","t","i","t","u","t","i","o","n">>), Lit(<<"c","o","n","s","t">>)>>),
      WB>> >>

\* _ORDER_RULE_PATTERNS (re.IGNORECASE); part 4 is group 1, part 8 is group 2
\* \bOrder\s+([0-9]+|[IVXLCDM]+)\s+Rule\s+([0-9]+|[IVXLCDM]+)\s*(CPC)?\b
\* \bO\.?\s*([0-9]+|[IVXLCDM]+)\s*R\.?\s*([0-9]+|[IVXLCDM]+)\s*(CPC)?\b
_ORDER_RULE_PATTERNS == <<
    <<WB, Lit(<<"o","r","d","e","r">>), Plus(Ws),
      Alt(<<Plus(Digit), Plus(In({"i","v","x","l","c","d","m"}))>>),
      Plus(Ws), Lit(<<"r","u","l","e">>), Plus(Ws),
      Alt(<<Plus(Digit), Plus(In({"i","v","x","l","c","d","m"}))>>),
      Star(Ws), Opt(Lit(<<"c","p","c">>)), WB>>,
    <<WB, Cat(<<Lit(<<"o">>), Opt(Lit(<<".">>))>>), Star(Ws),
      Alt(<<Plus(Digit), Plus(In({"i","v","x","l","c","d","m"}))>>),
      Star(Ws), Cat(<<Lit(<<"r">>), Opt(Lit(<<".">>))>>), Star(Ws),
      Alt(<<Plus(Digit), Plus(In({"i","v","x","l","c","d","m"}))>>),
      Star(Ws), Opt(Lit(<<"c","p","c">>)), WB>> >>

\* int(raw) of a string of digits
RECURSIVE ParseInt(_)
ParseInt(raw) ==
    IF raw = <<>> THEN 0
    ELSE 10 * ParseInt(SubSeq(raw, 1, Len(raw) - 1)) + (CHOOSE d \in 0..9 : IntToStr(d) = <<raw[Len(raw)]>>)

\* "int(raw) if raw.isdigit() else roman_to_int(raw)", 0 for None
IntOrRoman(raw) ==
    IF raw # <<>> /\ \A k \in 1..Len(raw) : raw[k] \in DigitSet THEN ParseInt(raw)
    ELSE roman_to_int(raw).value

\* parse_procedural_refs
parse_procedural_refs(text) ==
    LET \* ProcRef; order_no and rule_no are 0 where the dataclass holds None (a
        \* stored order or rule number is never 0)
        ProcRef(law_hint, kind, number, order_no, rule_no) ==
            [law_hint |-> law_hint, kind |-> kind, number |-> number,
             order_no |-> order_no, rule_no |-> rule_no]
        \* the reference made of one match with the boundaries p
        ref(kind, p) ==
            IF kind = "order_rule"
            THEN IF IntOrRoman(Group(text, p, 4)) # 0 /\ IntOrRoman(Group(text, p, 8)) # 0
                 THEN <<ProcRef(<<"C","P","C">>, "order_rule", <<>>,
                                IntOrRoman(Group(text, p, 4)), IntOrRoman(Group(text, p, 8)))>>
                 ELSE <<>>
            ELSE <<ProcRef(IF Upper(Group(text, p, 6)) = <<"C","O","N","S","T","I","T","U","T","I","O","N">>
                           THEN <<"C","O","N","S","T">> ELSE Upper(Group(text, p, 6)),
                           "section", Group(text, p, 4), 0, 0)>>
        RECURSIVE each(_, _)
        each(kind, ps) == IF ps = <<>> THEN <<>> ELSE ref(kind, ps[1]) \o each(kind, Tail(ps))
        \* "for pat in patterns: for m in pat.finditer(t)"
        RECURSIVE all(_, _)
        all(kind, pats) ==
            IF pats = <<>> THEN <<>>
            ELSE each(kind, FindPaths(pats[1], Lower(text), 0)) \o all(kind, Tail(pats))
        key(r) == <<r.law_hint, r.kind, normalize_section_number(r.number), r.order_no, r.rule_no>>
        \* dedupe (stable)
        RECURSIVE dedupe(_, _, _)
        dedupe(refs, seen, out) ==
            IF refs = <<>> THEN out
            ELSE IF key(refs[1]) \in seen THEN dedupe(Tail(refs), seen, out)
            ELSE dedupe(Tail(refs), seen \cup {key(refs[1])}, Append(out, refs[1]))
    IN  dedupe(all("order_rule", _ORDER_RULE_PATTERNS) \o all("section", _SECTION_PATTERNS), {}, <<>>)

MaxRows == 2

PPC_LAW_NAME == <<"P","a","k","i","s","t","a","n"," ","P","e","n","a","l"," ","C","o","d","e"," ","1","8","6","0">>
CPC_LAW_NAME == <<"C","o","d","e"," ","o","f"," ","C","i","v","i","l"," ","P","r","o","c","e","d","u","r","e"," ","1","9","0","8">>

\* rows a corpus may hold: whole sections, sub-clauses, sections with a
\* letter suffix in both stored spellings (two of them with texts of one
\* length), and CPC order/rule rows
RowPool ==
    LET \* a row of the table law_sections
        Row(law_name, section_number, section_title, section_text) ==
            [law_name |-> law_name, section_number |-> section_number,
             section_title |-> section_title, section_text |-> section_text,
             source_file |-> <<"l","a","w",".","p","d","f">>]
    IN  (
           {
    Row(PPC_LAW_NAME, <<"3","0","2">>, <<"P","u","n","i","s","h","m","e","n","t"," ","o","f"," ","q","a","t","l","-","i","-","a","m","d">>, <<"d","e","a","t","h"," ","o","r"," ","l","i","f","e">>),
    Row(PPC_LAW_NAME, <<"3","0","(","2",")">>, <<"V","a","l","u","a","b","l","e"," ","s","e","c","u","r","i","t","y">>, <<"c","l","a","u","s","e"," ","t","w","o">>),
    Row(PPC_LAW_NAME, <<"4","8","9","F">>, <<"D","i","s","h","o","n","e","s","t","l","y"," ","i","s","s","u","i","n","g"," ","a"," ","c","h","e","q","u","e">>, <<"c","h","e","q","u","e">>),
    Row(PPC_LAW_NAME, <<"4","8","9","-","F">>, <<"D","i","s","h","o","n","e","s","t","l","y"," ","i","s","s","u","i","n","g"," ","a"," ","c","h","e","q","u","e">>, <<"b","o","u","n","c","e","d"," ","c","h","e","q","u","e">>),
    Row(PPC_LAW_NAME, <<"4","8","9","-","F">>, <<"C","h","e","q","u","e"," ","d","i","s","h","o","n","o","u","r">>, <<"b","o","u","n","c","e">>),
    Row(CPC_LAW_NAME, <<"1","2","(","2",")">>, <<"B","a","r"," ","t","o"," ","f","u","r","t","h","e","r"," ","s","u","i","t">>, <<"f","r","a","u","d">>),
    Row(CPC_LAW_NAME, <<"1","2","2">>, <<"P","o","w","e","r"," ","t","o"," ","m","a","k","e"," ","r","u","l","e","s">>, <<"H","i","g","h"," ","C","o","u","r","t">>),
    Row(<<"C","o","d","e"," ","o","f"," ","C","r","i","m","i","n","a","l"," ","P","r","o","c","e","d","u","r","e"," ","1","8","9","8">>, <<"3","0","2">>, <<"P","e","r","m","i","s","s","i","o","n"," ","t","o"," ","c","o","n","d","u","c","t"," ","p","r","o","s","e","c","u","t","i","o","n">>, <<"p","e","r","m","i","s","s","i","o","n">>),
    Row(CPC_LAW_NAME, <<"O","2","R","1">>, <<"O","r","d","e","r"," ","2"," ","R","u","l","e"," ","1">>, <<"f","r","a","m","e"," ","o","f"," ","s","u","i","t">>),
    Row(CPC_LAW_NAME, <<"O","2","1","R","1","0">>, <<"O","r","d","e","r"," ","2","1"," ","R","u","l","e"," ","1","0">>, <<"a","p","p","l","i","c","a","t","i","o","n"," ","f","o","r"," ","e","x","e","c","u","t","i","o","n">>),
    Row(CPC_LAW_NAME, <<"O","2","1","R","2","6">>, <<"O","r","d","e","r"," ","2","1"," ","R","u","l","e"," ","2","6">>, <<"s","t","a","y">>),
    Row(CPC_LAW_NAME, <<"R","2","6">>, <<"R","u","l","e"," ","2","6">>, <<"s","t","a","y"," ","o","f"," ","e","x","e","c","u","t","i","o","n">>)
}
    )

\* the table law_sections as the lookup finds it
LoadCorpus ==
    /\ pc = "idle"
    /\ corpus' \in UNION {[1..n -> RowPool] : n \in 0..MaxRows}
    /\ pc' = "loaded"
    /\ UNCHANGED <<category, facts, analysis, draft, validation, query, result>>

FindSection ==
    LET SectionQueries == {<<"3","0","2">>, <<"3","0","(","2",")">>, <<"1","2","2">>, <<"1","2","(","2",")">>, <<"4","8","9","-","F">>, <<"4","8","9","f">>, <<"4","8","9"," ","F">>, <<>>}
    IN  (
    /\ pc = "loaded"
    /\ \E law_hint \in {<<"P","P","C">>, <<"C","P","C">>, <<"C","r","P","C">>}, raw \in SectionQueries :
          /\ query' = [fn |-> "find_section", module |-> "law_lookup",
                       law_hint |-> law_hint, raw |-> raw]
          /\ result' = find_section(corpus, law_hint, raw)
    /\ pc' = "found"
    /\ UNCHANGED <<category, facts, analysis, draft, validation, corpus>>
    )

FindOrderRule ==
    /\ pc = "loaded"
    /\ \E order_no \in {2, 21}, rule_no \in {1, 2, 10, 26} :
          /\ query' = [fn |-> "find_cpc_order_rule", module |-> "law_lookup",
                       order_no |-> order_no, rule_no |-> rule_no]
          /\ result' = find_cpc_order_rule(corpus, order_no, rule_no)
    /\ pc' = "found"
    /\ UNCHANGED <<category, facts, analysis, draft, validation, corpus>>

MaxRefs == 2

\* parse_procedural_refs(query_text), as resolve_refs calls it, on a text
\* that cites up to MaxRefs references in the forms of the pattern comments
ParseProceduralRefs ==
    /\ pc = "idle"
    /\ \E q \in WordSeqs({<<"S","e","c","t","i","o","n"," ","3","0","2"," ","P","P","C">>, <<"s","e","c"," ","3","0","2"," ","P","P","C">>, <<"s","."," ","4","9","7"," ","C","r","P","C">>, <<"u","/","s"," ","4","8","9","-","F"," ","P","P","C">>,
                          <<"u","/","s"," ","4","8","9","F"," ","P","P","C">>, <<"S","E","C","T","I","O","N"," ","3","0","2"," ","p","p","c">>,
                          <<"a","r","t","i","c","l","e"," ","1","9","9"," ","c","o","n","s","t","i","t","u","t","i","o","n">>, <<"A","r","t","i","c","l","e"," ","1","9","9"," ","o","f"," ","t","h","e"," ","C","o","n","s","t","i","t","u","t","i","o","n">>,
                          <<"a","r","t","."," ","1","9","9"," ","C","o","n","s","t","i","t","u","t","i","o","n">>,
                          <<"O","r","d","e","r"," ","X","X","I"," ","R","u","l","e"," ","2","6"," ","C","P","C">>, <<"o","r","d","e","r"," ","2","1"," ","r","u","l","e"," ","2","6">>, <<"O",".","2","1"," ","R",".","2","6">>}, MaxRefs) :
          /\ query' = [fn |-> "parse_procedural_refs", module |-> "law_lookup",
                       text |-> Join(q, <<" ","a","n","d"," ">>)]
          /\ result' = parse_procedural_refs(Join(q, <<" ","a","n","d"," ">>))
    /\ pc' = "parsed"
    /\ UNCHANGED <<category, facts, analysis, draft, validation, corpus>>

NextLookup == LoadCorpus \/ FindSection \/ FindOrderRule \/ ParseProceduralRefs

SpecLookup == Init /\ [][NextLookup]_vars

(***************************************************************************)
(* Claims about the Law Lookup (checked under SpecLookup)                  *)
(***************************************************************************)
\* text holds the token "<word> <n>": the number is not the prefix of a longer one
MentionsNumbered(text, word, n) ==
    LET t == Lower(text)
        w == word \o <<" ">> \o IntToStr(n)
    IN  \E i \in 0..(Len(t) - Len(w)) :
            /\ SubSeq(t, i + 1, i + Len(w)) = w
            /\ (i + Len(w) = Len(t) \/ t[i + Len(w) + 1] \notin DigitSet)

RowMentions(block, word, n) ==
    \/ MentionsNumbered(block.section_title, word, n)
    \/ MentionsNumbered(block.section_text, word, n)

\* C5: find_cpc_order_rule(o, r) returns a row only if that row's title or
\* text mentions both Order o and Rule r; a row with Rule r alone, or with
\* another order number, is never returned.
C5_OrderRuleBothMentioned ==
    (pc = "found" /\ query.fn = "find_cpc_order_rule" /\ result.some) =>
        /\ RowMentions(result.value, <<"o","r","d","e","r">>, query.order_no)
        /\ RowMentions(result.value, <<"r","u","l","e">>, query.rule_no)

IsPlainNumber(s) == s # <<>> /\ \A k \in 1..Len(s) : s[k] \in DigitSet

\* C6: find_section answers None or a copy of a corpus row of the hinted law
\* family; for a plain number n the row returned is stored under n itself,
\* never under a sub-clause number such as 30(2) for 302.
C6_SameLogicalSection ==
    (pc = "found" /\ query.fn = "find_section" /\ result.some) =>
        /\ \E k \in 1..Len(corpus) :
              /\ LawBlock(corpus[k], "section") = result.value
              /\ Contains(Lower(corpus[k].law_name), Lower(_law_name_like(query.law_hint)))
        /\ IsPlainNumber(query.raw) => result.value.section_number = query.raw

Forms489F == {<<"4","8","9","-","F">>, <<"4","8","9","f">>, <<"4","8","9"," ","F">>}

\* C7: '489-F', '489f' and '489 F' normalize to one canonical key, and
\* find_section with the same law hint answers the same for all three.
C7_SameKeySameRow ==
    (pc = "found" /\ query.fn = "find_section" /\ query.raw \in Forms489F) =>
        \A other \in Forms489F :
            /\ normalize_section_number(other) = normalize_section_number(query.raw)
            /\ find_section(corpus, query.law_hint, other) = result

\* the rows of the corpus that find_section takes for a match of the query
MatchesQuery(k) ==
    /\ Contains(Lower(corpus[k].law_name), Lower(_law_name_like(query.law_hint)))
    /\ \/ normalize_section_number(corpus[k].section_number) = normalize_section_number(query.raw)
       \/ corpus[k].section_number \in section_variants(query.raw)

\* C11: when several corpus rows match the query, find_section returns the
\* row of the greatest section_text length, and of the rows of that length the
\* one seen first; rows of one logical section give a single result.
C11_LongestFirstSeen ==
    (pc = "found" /\ query.fn = "find_section" /\ normalize_section_number(query.raw) # <<>>) =>
        LET matches == {k \in 1..Len(corpus) : MatchesQuery(k)}
        IN  IF matches = {} THEN ~result.some
            ELSE /\ result.some
                 /\ \E k \in matches :
                       /\ result.value = LawBlock(corpus[k], "section")
                       /\ \A j \in matches :
                             /\ Len(corpus[j].section_text) <= Len(corpus[k].section_text)
                             /\ j < k => Len(corpus[j].section_text) < Len(corpus[k].section_text)

\* two different rows of one length match; the first one is returned
C11_Witness ==
    /\ pc = "found" /\ query.fn = "find_section"
    /\ query.raw = <<"4","8","9","-","F">>
    /\ Len(corpus) = 2
    /\ corpus[1].section_text = <<"b","o","u","n","c","e">>
    /\ corpus[2].section_text = <<"c","h","e","q","u","e">>
    /\ result.some
    /\ result.value.section_text = <<"b","o","u","n","c","e">>

\* the key under which two references are the same reference
RefKey(r) == <<r.law_hint, r.kind, normalize_section_number(r.number), r.order_no, r.rule_no>>

\* the offsets in text where a citation of the reference r starts
Appearances(text, r) ==
    LET starts(pats) ==
            UNION {{p[1] : p \in {m \in Range(FindPaths(pats[k], Lower(text), 0)) :
                            RefKey(r) \in {RefKey(x) : x \in Range(parse_procedural_refs(
                                               SubSeq(text, m[1] + 1, m[Len(m)])))}}} :
                   k \in 1..Len(pats)}
    IN  starts(_ORDER_RULE_PATTERNS) \cup starts(_SECTION_PATTERNS)

\* C16: parse_procedural_refs returns each distinct reference exactly once,
\* and the list is ordered by where each reference first appears in the text,
\* also when order/rule and section references are interleaved.
C16_DistinctInTextOrder ==
    pc = "parsed" =>
        /\ \A i, j \in 1..Len(result) : i # j => RefKey(result[i]) # RefKey(result[j])
        /\ \A i, j \in 1..Len(result) :
              i < j => Least(Appearances(query.text, result[i])) <= Least(Appearances(query.text, result[j]))

\* one citation in each of the required forms
RequiredForms == {
    <<"S","e","c","t","i","o","n"," ","3","0","2"," ","P","P","C">>, <<"s","e","c"," ","3","0","2"," ","P","P","C">>, <<"s","."," ","4","9","7"," ","C","r","P","C">>, <<"u","/","s"," ","4","8","9","-","F"," ","P","P","C">>,
    <<"a","r","t","i","c","l","e"," ","1","9","9"," ","c","o","n","s","t","i","t","u","t","i","o","n">>, <<"A","r","t","i","c","l","e"," ","1","9","9"," ","o","f"," ","t","h","e"," ","C","o","n","s","t","i","t","u","t","i","o","n">>, <<"a","r","t","."," ","1","9","9"," ","C","o","n","s","t","i","t","u","t","i","o","n">>,
    <<"O","r","d","e","r"," ","X","X","I"," ","R","u","l","e"," ","2","6"," ","C","P","C">>, <<"o","r","d","e","r"," ","2","1"," ","r","u","l","e"," ","2","6">>, <<"O",".","2","1"," ","R",".","2","6">>}

\* C17: parse_procedural_refs yields a reference for a citation in each of the
\* required forms, whatever the case of its letters.
C17_RequiredFormsRecognised ==
    (pc = "parsed" /\ query.text \in RequiredForms) => Len(result) = 1

(***************************************************************************)
(* Draft Validator: backend/services/section_validator.py                  *)
(***************************************************************************)
\* (\d+[-A-Za-z]*)
SectionNumberRe == Cat(<<Plus(Digit), Star(In(LetterSet \cup {"-"}))>>)

\* pattern1: (?:section|sec\.?|s\.?)\s*(\d+[-A-Za-z]*)\s+(cpc|crpc|ppc|qso|mflo|c\.?p\.?c|cr\.?p\.?c|p\.?p\.?c)
pattern1 ==
    LET \* c\.?p\.?c  and its relatives
        Dotted(a, b, c) == Cat(<<Lit(a), Opt(Lit(<<".">>)), Lit(b), Opt(Lit(<<".">>)), Lit(c)>>)
    IN  (
            <<
    Alt(<<Lit(<<"s","e","c","t","i","o","n">>), Cat(<<Lit(<<"s","e","c">>), Opt(Lit(<<".">>))>>), Cat(<<Lit(<<"s">>), Opt(Lit(<<".">>))>>)>>),
    Star(Ws),
    SectionNumberRe,
    Plus(Ws),
    Alt(<<Lit(<<"c","p","c">>), Lit(<<"c","r","p","c">>), Lit(<<"p","p","c">>), Lit(<<"q","s","o">>), Lit(<<"m","f","l","o">>),
          Dotted(<<"c">>, <<"p">>, <<"c">>), Dotted(<<"c","r">>, <<"p">>, <<"c">>), Dotted(<<"p">>, <<"p">>, <<"c">>)>>) >>
    )

\* pattern3: u/s\s*(\d+[-A-Za-z]*)\s*(ppc|crpc|cpc)
pattern3 == <<Lit(<<"u","/","s">>), Star(Ws), SectionNumberRe, Star(Ws),
              Alt(<<Lit(<<"p","p","c">>), Lit(<<"c","r","p","c">>), Lit(<<"c","p","c">>)>>)>>

\* SectionValidator._normalize_law_name
_normalize_law_name(law) ==
    LET law_upper == ReplaceChar(Upper(law), ".", <<>>)
    IN  IF law_upper = <<"C","R","P","C">> THEN <<"C","r","P","C">> ELSE law_upper

\* SectionValidator._extract_cited_sections: the set of (law, section) pairs
_extract_cited_sections(text) ==
    LET \* pattern4: order\s+([ivxlc]+|\d+)\s+rule\s+(\d+)
        pattern4 == <<Lit(<<"o","r","d","e","r">>), Plus(Ws),
                      Alt(<<Plus(In({"i","v","x","l","c","I","V","X","L","C"})), Plus(Digit)>>),
                      Plus(Ws), Lit(<<"r","u","l","e">>), Plus(Ws), Plus(Digit)>>
        \* pattern2: article\s*(\d+)
        pattern2 == <<Lit(<<"a","r","t","i","c","l","e">>), Star(Ws), Plus(Digit)>>
        text_lower == Lower(text)
    IN  {<<_normalize_law_name(Group(text_lower, p, 5)), Upper(Group(text_lower, p, 3))>> :
            p \in Range(FindPaths(pattern1, text_lower, 0))}
        \cup {<<<<"C","o","n","s","t","i","t","u","t","i","o","n">>, Group(text_lower, p, 3)>> :
            p \in Range(FindPaths(pattern2, text_lower, 0))}
        \cup {<<_normalize_law_name(Group(text_lower, p, 5)), Upper(Group(text_lower, p, 3))>> :
            p \in Range(FindPaths(pattern3, text_lower, 0))}
        \cup {<<<<"C","P","C">>, <<"O","r","d","e","r"," ">> \o Upper(Group(text_lower, p, 3)) \o <<" ","R","u","l","e"," ">> \o Group(text_lower, p, 7)>> :
            p \in Range(FindPaths(pattern4, text_lower, 0))}

\* mutant: Section 268 PPC is a government-only section as well
WRONG_SECTION_RULES_with_268 ==
    [key \in {<<<<"C","P","C">>, <<"8","0">>>>, <<<<"P","P","C">>, <<"2","6","8">>>>} |->
        [rule |-> "government_only",
         message |-> "Section 80 CPC applies ONLY to notices against Government entities"]]

WRONG_SECTION_RULES ==
    [key \in {<<<<"C","P","C">>, <<"8","0">>>>} |->
        [rule |-> "government_only",
         message |-> "Section 80 CPC applies ONLY to notices against Government entities"]]

\* the marker "[(warning sign) WRONG: " put before a flagged citation; the two
\* code points of the warning sign are one element each
WrongMarker == <<"[", "U+26A0", "U+FE0F">> \o <<" ","W","R","O","N","G",":"," ">>

\* SectionValidator._flag_wrong_section: the three patterns in turn, the
\* first of the list applied first (innermost)
_flag_wrong_section(text, law, section) ==
    LET \* re.sub(pattern, r"[(warning sign) WRONG: \1]", text, flags=re.IGNORECASE)
        MarkWrong(pattern, marked) == ReSub(pattern, marked, WrongMarker, TRUE, <<"]">>)
        \* (?:section|sec\.?)
        SectionWord == Alt(<<Lit(<<"s","e","c","t","i","o","n">>), Cat(<<Lit(<<"s","e","c">>), Opt(Lit(<<".">>))>>)>>)
    IN  (
    \* ({law}\s+(?:section|sec\.?)\s*{section})
    MarkWrong(Cat(<<Lit(law), Plus(Ws), SectionWord, Star(Ws), Lit(section)>>),
        \* ((?:section|sec\.?)\s*{section}\s+of\s+(?:the\s+)?{law})
        MarkWrong(Cat(<<SectionWord, Star(Ws), Lit(section), Plus(Ws), Lit(<<"o","f">>), Plus(Ws),
                        Opt(Cat(<<Lit(<<"t","h","e">>), Plus(Ws)>>)), Lit(law)>>),
            \* ((?:section|sec\.?)\s*{section}\s+{law})
            MarkWrong(Cat(<<SectionWord, Star(Ws), Lit(section), Plus(Ws), Lit(law)>>), text)))
    )

\* f"{law} Section {section}"
SectionLabel(law, section) == law \o <<" ","S","e","c","t","i","o","n"," ">> \o section

\* expected_sections: the keys (law_short.upper(), section_number.upper()) in
\* the order of their first insertion, and the entry stored last under a key
ExpectedKeys(a) ==
    LET RECURSIVE keys(_, _)
        keys(k, acc) ==
            IF k > Len(a.applicable_sections) THEN acc
            ELSE LET key == <<Upper(a.applicable_sections[k].law_short),
                              Upper(a.applicable_sections[k].section_number)>>
                 IN  keys(k + 1, IF key \in Range(acc) THEN acc ELSE Append(acc, key))
    IN  keys(1, <<>>)

ExpectedEntry(a, key) ==
    LET ks == {k \in 1..Len(a.applicable_sections) :
                  <<Upper(a.applicable_sections[k].law_short),
                    Upper(a.applicable_sections[k].section_number)>> = key}
    IN  a.applicable_sections[CHOOSE k \in ks : \A j \in ks : j <= k]

\* mutant: the missing section is also written into the draft
CheckExpected_inserts(res, key, a, cited) ==
    LET section_info == ExpectedEntry(a, key)
        found == \E k \in 1..Len(cited) : Upper(cited[k][1]) = key[1] /\ Upper(cited[k][2]) = key[2]
    IN  IF section_info.is_primary /\ section_info.confidence = "HIGH" /\ ~found
        THEN [res EXCEPT
                !.sections_added = Append(@, SectionLabel(key[1], key[2])),
                !.draft = @ \o <<"\n">> \o SectionLabel(key[1], key[2]),
                !.flags_for_review =
                    Append(@, [text |-> "Consider adding {law} Section {section}: {reason}",
                               law |-> key[1], section |-> key[2], reason |-> section_info.reason])]
        ELSE res

\* the body of the loop "for key, section_info in expected_sections.items()"
CheckExpected(res, key, a, cited) ==
    LET section_info == ExpectedEntry(a, key)
        found == \E k \in 1..Len(cited) : Upper(cited[k][1]) = key[1] /\ Upper(cited[k][2]) = key[2]
    IN  IF section_info.is_primary /\ section_info.confidence = "HIGH" /\ ~found
        THEN [res EXCEPT
                !.sections_added = Append(@, SectionLabel(key[1], key[2])),
                !.flags_for_review =
                    Append(@, [text |-> "Consider adding {law} Section {section}: {reason}",
                               law |-> key[1], section |-> key[2], reason |-> section_info.reason])]
        ELSE res

\* SectionValidator.validate_draft with the analysis given; cited is
\* list(set(citations)) in the order the set happens to be iterated
validate_draft(text, a, cited) ==
    LET \* "if key in expected_sections ... elif key not in WRONG_SECTION_RULES"
        CheckKnown(r1, law, section) ==
            LET key == <<Upper(law), Upper(section)>>
            IN  IF key \in Range(ExpectedKeys(a))
                THEN [r1 EXCEPT !.sections_correct = Append(@, SectionLabel(law, section))]
                ELSE IF key \notin DOMAIN WRONG_SECTION_RULES
                THEN [r1 EXCEPT !.flags_for_review =
                         Append(@, Message("Verify if {law} Section {section} is applicable to this case", law, section))]
                ELSE r1
        \* "if key in WRONG_SECTION_RULES": a government-only section cited where no
        \* government is involved is recorded and flagged in the draft
        CheckWrong(res, law, section) ==
            LET key == <<Upper(law), Upper(section)>>
            IN  IF /\ key \in DOMAIN WRONG_SECTION_RULES
                   /\ WRONG_SECTION_RULES[key].rule = "government_only"
                   /\ ~a.is_government_involved
                THEN [res EXCEPT
                        !.sections_removed = Append(@, SectionLabel(law, section)),
                        !.warnings = Append(@, Text("(warning sign) WRONG SECTION: Section 80 CPC applies ONLY to notices against Government entities")),
                        !.is_valid = FALSE,
                        !.draft = _flag_wrong_section(@, law, section)]
                ELSE res
        start == [is_valid |-> TRUE, draft |-> text, original_draft |-> text,
                  sections_added |-> <<>>, sections_removed |-> <<>>, sections_correct |-> <<>>,
                  warnings |-> a.warnings, flags_for_review |-> a.flags_for_review,
                  confidence |-> a.confidence]
        RECURSIVE wrongs(_, _)
        wrongs(k, res) ==
            IF k > Len(cited) THEN res
            ELSE wrongs(k + 1, CheckKnown(CheckWrong(res, cited[k][1], cited[k][2]),
                                          cited[k][1], cited[k][2]))
        expected == ExpectedKeys(a)
        RECURSIVE missing(_, _)
        missing(k, res) ==
            IF k > Len(expected) THEN res
            ELSE missing(k + 1, CheckExpected(res, expected[k], a, cited))
    IN  missing(1, wrongs(1, start))

\* the orders in which list(set(citations)) may come out
Orderings(set) ==
    {q \in [1..Cardinality(set) -> set] : \A i, j \in 1..Cardinality(set) : i # j => q[i] # q[j]}

(***************************************************************************)
(* Drafting call: backend/routers/drafter.py                               *)
(***************************************************************************)
\* section\s*80|sec\.?\s*80|u\s*/\s*s\.?\s*80|u/s\.?\s*80
Sec80Cite == Alt(<<
    Cat(<<Lit(<<"s","e","c","t","i","o","n">>), Star(Ws), Lit(<<"8","0">>)>>),
    Cat(<<Lit(<<"s","e","c">>), Opt(Lit(<<".">>)), Star(Ws), Lit(<<"8","0">>)>>),
    Cat(<<Lit(<<"u">>), Star(Ws), Lit(<<"/">>), Star(Ws), Lit(<<"s">>), Opt(Lit(<<".">>)), Star(Ws), Lit(<<"8","0">>)>>),
    Cat(<<Lit(<<"u","/","s">>), Opt(Lit(<<".">>)), Star(Ws), Lit(<<"8","0">>)>>) >>)

\* c\.?\s*p\.?\s*c\.?
SpacedCpc == Cat(<<Lit(<<"c">>), Opt(Lit(<<".">>)), Star(Ws), Lit(<<"p">>), Opt(Lit(<<".">>)), Star(Ws),
                   Lit(<<"c">>), Opt(Lit(<<".">>))>>)

\* code\s+of\s+civil\s+procedure
CodeOfCivilProcedure == Cat(<<Lit(<<"c","o","d","e">>), Plus(Ws), Lit(<<"o","f">>), Plus(Ws), Lit(<<"c","i","v","i","l">>), Plus(Ws), Lit(<<"p","r","o","c","e","d","u","r","e">>)>>)

\* civil\s+procedure\s+code
CivilProcedureCode == Cat(<<Lit(<<"c","i","v","i","l">>), Plus(Ws), Lit(<<"p","r","o","c","e","d","u","r","e">>), Plus(Ws), Lit(<<"c","o","d","e">>)>>)

\* (?im)^\s*.*\b(<cite>)\b.*\b(c\.?\s*p\.?\s*c\.?|cpc|code\s+of\s+civil\s+procedure|civil\s+procedure\s+code)\b.*$
_SEC80_ANY_LINE == Cat(<<
    BOL, Star(Ws), Star(NotNewline), WB, Sec80Cite, WB, Star(NotNewline), WB,
    Alt(<<SpacedCpc, Lit(<<"c","p","c">>), CodeOfCivilProcedure, CivilProcedureCode>>),
    WB, Star(NotNewline), EOL >>)

\* (?i)\b(<cite>)\s*(of\s*)?(the\s*)?(code\s+of\s+)?(civil\s+procedure\s+code|c\.?\s*p\.?\s*c\.?|cpc)\b
_SEC80_INLINE == Cat(<<
    WB, Sec80Cite, Star(Ws),
    Opt(Cat(<<Lit(<<"o","f">>), Star(Ws)>>)),
    Opt(Cat(<<Lit(<<"t","h","e">>), Star(Ws)>>)),
    Opt(Cat(<<Lit(<<"c","o","d","e">>), Plus(Ws), Lit(<<"o","f">>), Plus(Ws)>>)),
    Alt(<<CivilProcedureCode, SpacedCpc, Lit(<<"c","p","c">>)>>),
    WB >>)

\* the substitutions of a private Legal Notice; the first of the source is the
\* innermost
RemoveSection80(s) ==
    \* ,\s*,  ->  one comma
    ReSub(Cat(<<Lit(<<",">>), Star(Ws), Lit(<<",">>)>>),
     \* \(\s*\)  ->  nothing
     ReSub(Cat(<<Lit(<<"(">>), Star(Ws), Lit(<<")">>)>>),
      \* [ \t]{2,}  ->  one space
      ReSub(Cat(<<In({" ", "\t"}), Plus(In({" ", "\t"}))>>),
       \* \n{3,}  ->  two newlines
       ReSub(Cat(<<Lit(<<"\n","\n">>), Plus(Lit(<<"\n">>))>>),
        \* (?im)^\s*LEGAL\s+NOTICE\s+UNDER\s+.*SECTION\s*80.*$  ->  LEGAL NOTICE
        ReSub(Cat(<<BOL, Star(Ws), Lit(<<"L","E","G","A","L">>), Plus(Ws), Lit(<<"N","O","T","I","C","E">>), Plus(Ws),
                    Lit(<<"U","N","D","E","R">>), Plus(Ws), Star(NotNewline), Lit(<<"S","E","C","T","I","O","N">>), Star(Ws),
                    Lit(<<"8","0">>), Star(NotNewline), EOL>>),
         \* (?im)^\s*LEGAL\s+NOTICE\s+UNDER\s*$  ->  LEGAL NOTICE
         ReSub(Cat(<<BOL, Star(Ws), Lit(<<"L","E","G","A","L">>), Plus(Ws), Lit(<<"N","O","T","I","C","E">>), Plus(Ws),
                     Lit(<<"U","N","D","E","R">>), Star(Ws), EOL>>),
          \* re.sub(_SEC80_INLINE, "", processed)
          ReSub(_SEC80_INLINE,
           \* re.sub(_SEC80_ANY_LINE, "", processed)
           ReSub(_SEC80_ANY_LINE, s, <<>>, FALSE, <<>>),
           <<>>, FALSE, <<>>),
          <<"L","E","G","A","L"," ","N","O","T","I","C","E">>, FALSE, <<>>),
         <<"L","E","G","A","L"," ","N","O","T","I","C","E">>, FALSE, <<>>),
        <<"\n","\n">>, FALSE, <<>>),
       <<" ">>, FALSE, <<>>),
      <<>>, FALSE, <<>>),
     <<",">>, FALSE, <<>>)

post_process_draft(text, a, cat) ==
    LET \* draft.replace("\r\n", "\n").replace("\r", "\n")
        UnixNewlines(raw) ==
            LET \* str.replace("\r\n", "\n"): every carriage return that a newline follows goes
                DropCrBeforeLf(s) ==
                    LET kept == {k \in 1..Len(s) : ~(s[k] = "\r" /\ k < Len(s) /\ s[k + 1] = "\n")}
                    IN  [n \in 1..Cardinality(kept) |->
                            s[CHOOSE k \in kept : Cardinality({j \in kept : j <= k}) = n]]
            IN  (
            ReplaceChar(IF "\r" \in Range(raw) THEN DropCrBeforeLf(raw) ELSE raw, "\r", <<"\n">>)
            )
    IN  (
    IF Strip(cat) = <<"L","e","g","a","l"," ","N","o","t","i","c","e">> /\ ~a.is_government_involved
    THEN Strip(RemoveSection80(UnixNewlines(text)))
    ELSE Strip(UnixNewlines(text))
    )

(***************************************************************************)
(* The Section 80 detector of backend/test/test_drafter.py                 *)
(***************************************************************************)

SEC80_PATTERNS ==
    LET \* (cpc|c\.?\s*p\.?\s*c\.?)
        CpcOrSpaced == Alt(<<Lit(<<"c","p","c">>), SpacedCpc>>)
    IN  (
                  <<
    \* \bsection\s*80\b.*\b(cpc|c\.?\s*p\.?\s*c\.?|code\s+of\s+civil\s+procedure|civil\s+procedure\s+code)\b
    Cat(<<WB, Lit(<<"s","e","c","t","i","o","n">>), Star(Ws), Lit(<<"8","0">>), WB, Star(NotNewline), WB,
          Alt(<<Lit(<<"c","p","c">>), SpacedCpc, CodeOfCivilProcedure, CivilProcedureCode>>), WB>>),
    \* \bu\s*/\s*s\.?\s*80\b.*\b(cpc|c\.?\s*p\.?\s*c\.?)\b
    Cat(<<WB, Lit(<<"u">>), Star(Ws), Lit(<<"/">>), Star(Ws), Lit(<<"s">>), Opt(Lit(<<".">>)), Star(Ws),
          Lit(<<"8","0">>), WB, Star(NotNewline), WB, CpcOrSpaced, WB>>),
    \* \bu/s\.?\s*80\b.*\b(cpc|c\.?\s*p\.?\s*c\.?)\b
    Cat(<<WB, Lit(<<"u","/","s">>), Opt(Lit(<<".">>)), Star(Ws), Lit(<<"8","0">>), WB, Star(NotNewline), WB,
          CpcOrSpaced, WB>>),
    \* \bcpc\s*section\s*80\b
    Cat(<<WB, Lit(<<"c","p","c">>), Star(Ws), Lit(<<"s","e","c","t","i","o","n">>), Star(Ws), Lit(<<"8","0">>), WB>>) >>
    )

contains_section_80(text) ==
    LET SEC80_REGEX == Alt(SEC80_PATTERNS)
    IN  (
                             FirstStart(SEC80_REGEX, text, 0) >= 0
    )

(***************************************************************************)
(* The drafting call and the validator as operations                       *)
(***************************************************************************)
MaxDraftLines == 2

\* the text the language model answers with
GeneratedTexts ==
    LET \* lines a generated draft may hold: the heading of the validator's own test,
        \* citations of Section 80 in several spellings, an expected section of a
        \* noise complaint, and a line without a citation
        DraftLines == {
            <<"L","E","G","A","L"," ","N","O","T","I","C","E"," ","U","N","D","E","R"," ","S","E","C","T","I","O","N"," ","8","0"," ","C",".","P",".","C",".">>,
            <<"S","e","e"," ","S","e","c","t","i","o","n"," ","8","0"," ","C","P","C">>,
            <<"C","P","C"," ","S","e","c","t","i","o","n"," ","8","0"," ","a","p","p","l","i","e","s">>,
            <<"s","."," ","8","0"," ","c","p","c">>,
            <<"S","e","c","t","i","o","n"," ","2","6","8"," ","P","P","C">>,
            <<"T","o",":"," ","M","s","."," ","S","u","m","m","y","a">>
        }
    IN  (
                  {Join(q, <<"\n">>) : q \in WordSeqs(DraftLines, MaxDraftLines)}
    )

\* POST /api/draft: request.category and request.facts
DraftRequest ==
    Request({<<"L","e","g","a","l"," ","N","o","t","i","c","e">>, <<"S","u","i","t"," ","f","o","r"," ","R","e","c","o","v","e","r","y">>},
            {<<"n","e","i","g","h","b","o","r"," ","n","o","i","s","e">>, <<"W","A","P","D","A">>})

\* draft_en_raw = generate_english_draft(...): the model's answer, stripped
GenerateDraft ==
    /\ pc = "analysed"
    /\ \E text \in GeneratedTexts : draft' = Strip(text)
    /\ pc' = "generated"
    /\ UNCHANGED <<category, facts, analysis, validation, corpus, query, result>>

\* draft_en = post_process_draft(draft_en_raw, analysis, category)
PostProcess ==
    /\ pc = "generated"
    /\ draft' = post_process_draft(draft, analysis, category)
    /\ pc' = "processed"
    /\ UNCHANGED <<category, facts, analysis, validation, corpus, query, result>>

\* the fields of the response that do not come from a further model call
DraftResponse(v, a) ==
    [draft_en |-> v.draft,
     sections_used |-> extract_sections_used_from_analysis(a),
     sections_found |-> Len(a.applicable_sections),
     warnings |-> v.warnings,
     flags_for_review |-> v.flags_for_review,
     is_government_involved |-> a.is_government_involved]

\* validation = validate_legal_draft(draft_en, category, facts, analysis),
\* and the response is built
ValidateAndReturn ==
    /\ pc = "processed"
    /\ \E cited \in Orderings(_extract_cited_sections(draft)) :
          /\ validation' = validate_draft(draft, analysis, cited)
          /\ result' = DraftResponse(validation', analysis)
    /\ pc' = "returned"
    /\ UNCHANGED <<category, facts, analysis, draft, corpus, query>>

\* validate_legal_draft(draft, category, facts) called on its own: the
\* analysis is computed by the validator
ValidateLegalDraft ==
    /\ pc = "requested"
    /\ \E text \in GeneratedTexts :
          /\ draft' = text
          /\ analysis' = get_applicable_sections(category, facts)
          /\ \E cited \in Orderings(_extract_cited_sections(text)) :
                validation' = validate_draft(text, analysis', cited)
    /\ pc' = "validated"
    /\ UNCHANGED <<category, facts, corpus, query, result>>

NextDraft ==
    \/ DraftRequest \/ AnalyzeCase \/ GenerateDraft \/ PostProcess \/ ValidateAndReturn
    \/ ValidateLegalDraft

SpecDraft == Init /\ [][NextDraft]_vars

(***************************************************************************)
(* Claims about the validator and the drafting call (checked under         *)
(* SpecDraft)                                                              *)
(***************************************************************************)
\* the occurrences of a citation of (law, section) that the extraction pass
\* recognises in text: the offsets where a match of pattern1 or pattern3
\* yielding that pair starts
RecognisedAt(text, law, section) ==
    LET lower == Lower(text)
        hits(parts) == {p[1] : p \in {q \in Range(FindPaths(parts, lower, 0)) :
                           /\ _normalize_law_name(Group(lower, q, 5)) = law
                           /\ Upper(Group(lower, q, 3)) = section}}
    IN  hits(pattern1) \cup hits(pattern3)

\* the occurrence at offset i stands right behind the visible marker
Marked(text, i) ==
    /\ i >= Len(WrongMarker)
    /\ SubSeq(text, i - Len(WrongMarker) + 1, i) = WrongMarker

\* C3: validate_draft on a draft citing Section 80 CPC, for an analysis that
\* is not government-involved, returns is_valid = FALSE, lists 'CPC Section
\* 80' in sections_removed, and in the corrected draft every occurrence of
\* the citation that the extraction pass recognises carries the marker.
C3_WrongSection80Flagged ==
    (/\ pc \in {"validated", "returned"}
     /\ <<<<"C","P","C">>, <<"8","0">>>> \in _extract_cited_sections(validation.original_draft)
     /\ ~analysis.is_government_involved) =>
        /\ ~validation.is_valid
        /\ <<"C","P","C"," ","S","e","c","t","i","o","n"," ","8","0">> \in Range(validation.sections_removed)
        /\ \A i \in RecognisedAt(validation.draft, <<"C","P","C">>, <<"8","0">>) : Marked(validation.draft, i)

\* C4: for a private request of category 'Legal Notice' the English draft of
\* the response, after post-processing and validation, holds no Section 80
\* CPC citation in any form the test's detector knows.
C4_PrivateNoticeDraftWithout80 ==
    (/\ pc = "returned"
     /\ category = <<"L","e","g","a","l"," ","N","o","t","i","c","e">>
     /\ ~analysis.is_government_involved) =>
        ~contains_section_80(result.draft_en)


\* the draft cites (law, section), compared as validate_draft compares
CitedIn(text, law, section) ==
    \E c \in _extract_cited_sections(text) : Upper(c[1]) = law /\ Upper(c[2]) = section

\* the applicable sections the validator expects, primary and of HIGH
\* confidence, that the validated draft does not cite
MissingPrimaries ==
    {s \in Range(analysis.applicable_sections) :
        /\ s.is_primary
        /\ s.confidence = "HIGH"
        /\ ~CitedIn(validation.original_draft, Upper(s.law_short), Upper(s.section_number))}

C15_EveryCitedPairAccounted ==
    pc \in {"validated", "returned"} =>
        \A c \in _extract_cited_sections(validation.original_draft) :
            \/ SectionLabel(c[1], c[2]) \in Range(validation.sections_correct)
            \/ SectionLabel(c[1], c[2]) \in Range(validation.sections_removed)
            \/ Message("Verify if {law} Section {section} is applicable to this case", c[1], c[2])
                   \in Range(validation.flags_for_review)

(***************************************************************************)
(* Local search: backend/routers/law_search/local_search.py                *)
(*                                                                         *)
(* The database db is [state, law_sections, judgments]: the file is        *)
(* "missing", or it is there but every query raises ("unreadable"), or its *)
(* tables are read ("ok").  A result dict is a record; the keys _key, id,  *)
(* order_number and rule_number, which nothing reads afterwards, are left  *)
(* out, and matched_keyword is <<>> in a dict without that key.            *)
(***************************************************************************)
\* a NULL column, None in Python
Null == <<"NULL">>

\* str.split()
RECURSIVE Split(_)
Split(s) ==
    IF s = <<>> THEN <<>>
    ELSE IF s[1] \in SpaceSet THEN Split(Tail(s))
    ELSE LET n == Least({k \in 1..Len(s) : k = Len(s) \/ s[k + 1] \in SpaceSet})
         IN  <<SubSeq(s, 1, n)>> \o Split(SubSeq(s, n + 1, Len(s)))

\* column LIKE '%sub%': not true of NULL, and the case of letters is ignored
Like(column, sub) == column # Null /\ Contains(Lower(column), Lower(sub))

\* "LIMIT n", "results[:n]"
Limit(rows, n) == SubSeq(rows, 1, IF Len(rows) < n THEN Len(rows) ELSE n)

\* the dict of a row found, with the text and the keyword given
Hit(row, text, keyword) ==
    [found |-> TRUE, source |-> "local_db", law_name |-> row.law_name,
     section_number |-> row.section_number, section_title |-> row.section_title,
     section_text |-> text, matched_keyword |-> keyword]

\* normalize_section
normalize_section(section) ==
    LET RECURSIVE unzero(_)
        unzero(s) == IF s # <<>> /\ s[1] = "0" THEN unzero(Tail(s)) ELSE s
        fuse(s) == IF /\ Len(s) >= 3
                      /\ s[Len(s)] \in LetterSet
                      /\ s[Len(s) - 1] = "-"
                      /\ s[Len(s) - 2] \in DigitSet
                   THEN SubSeq(s, 1, Len(s) - 2) \o <<s[Len(s)]>>
                   ELSE s
    IN  fuse(unzero(Strip(section)))

\* search_by_section; the row LIMIT 1 gives is the first in table order
search_by_section(db, law_code, section_number) ==
    IF db.state = "missing" THEN [found |-> FALSE, none |-> TRUE]
    ELSE IF db.state = "unreadable" THEN [found |-> FALSE, error |-> "query"]
    ELSE LET code == Upper(law_code)
             law_name_pattern ==
                 IF code = <<"P","P","C">> THEN <<"P","a","k","i","s","t","a","n"," ","P","e","n","a","l"," ","C","o","d","e">>
                 ELSE IF code = <<"C","R","P","C">> THEN <<"C","r","i","m","i","n","a","l"," ","P","r","o","c","e","d","u","r","e">>
                 ELSE IF code = <<"C","P","C">> THEN <<"C","i","v","i","l"," ","P","r","o","c","e","d","u","r","e">>
                 ELSE IF code = <<"C","O","N","S","T","I","T","U","T","I","O","N">> THEN <<"C","o","n","s","t","i","t","u","t","i","o","n">>
                 ELSE IF code = <<"Q","S","O">> THEN <<"Q","a","n","u","n","-","e","-","S","h","a","h","a","d","a","t">>
                 ELSE IF code = <<"M","F","L","O">> THEN <<"M","u","s","l","i","m"," ","F","a","m","i","l","y"," ","L","a","w","s">>
                 ELSE law_code
             rows == SelectSeq(db.law_sections, LAMBDA row :
                         /\ Like(row.law_name, law_name_pattern)
                         /\ \/ row.section_number = normalize_section(section_number)
                            \/ row.section_number = section_number
                            \/ Like(row.section_number, normalize_section(section_number)))
         IN  IF rows = <<>> THEN [found |-> FALSE, source |-> "local_db"]
             ELSE Hit(rows[1], rows[1].section_text, <<>>)

\* search_by_keywords; row["section_text"][:500] of a NULL text raises, and
\* the except clause then answers for the whole call
search_by_keywords(db, keywords, limit) ==
    IF db.state = "missing" THEN <<>>
    ELSE IF db.state = "unreadable" THEN <<[found |-> FALSE, error |-> "query"]>>
    ELSE LET str(x) == IF x = Null THEN <<"N","o","n","e">> ELSE x
             key(row) == str(row.law_name) \o <<"_">> \o str(row.section_number)
             RECURSIVE fetched(_, _, _)
             fetched(rows, word, results) ==
                 IF rows = <<>> \/ results.raised THEN results
                 ELSE IF key(rows[1]) \in results.keys THEN fetched(Tail(rows), word, results)
                 ELSE IF rows[1].section_text = Null
                 THEN [raised |-> TRUE, keys |-> {}, items |-> <<>>]
                 ELSE fetched(Tail(rows), word,
                              [raised |-> FALSE, keys |-> results.keys \cup {key(rows[1])},
                               items |-> Append(results.items,
                                                Hit(rows[1], Limit(rows[1].section_text, 500), word))])
             RECURSIVE each(_, _)
             each(words, results) ==
                 IF words = <<>> \/ results.raised THEN results
                 ELSE IF Len(words[1]) < 3 THEN each(Tail(words), results)
                 ELSE each(Tail(words),
                           fetched(Limit(SelectSeq(db.law_sections, LAMBDA row :
                                             \/ Like(row.section_title, words[1])
                                             \/ Like(row.section_text, words[1])), limit),
                                   words[1], results))
             done(results) == IF results.raised THEN <<[found |-> FALSE, error |-> "TypeError"]>>
                              ELSE Limit(results.items, limit)
         IN  done(each(Split(Lower(keywords)), [raised |-> FALSE, keys |-> {}, items |-> <<>>]))

\* search_by_law_name
search_by_law_name(db, law_name, limit) ==
    IF db.state = "missing" THEN <<>>
    ELSE IF db.state = "unreadable" THEN <<[found |-> FALSE, error |-> "query"]>>
    ELSE LET rows == Limit(SelectSeq(db.law_sections, LAMBDA row : Like(row.law_name, law_name)), limit)
         IN  [k \in 1..Len(rows) |-> Hit(rows[k], rows[k].section_text, <<>>)]

\* search_cpc_order_rule
search_cpc_order_rule(db, order_num, rule_num) ==
    IF db.state = "missing" THEN [found |-> FALSE, none |-> TRUE]
    ELSE IF db.state = "unreadable" THEN [found |-> FALSE, error |-> "query"]
    ELSE LET rows == SelectSeq(db.law_sections, LAMBDA row :
                         /\ Like(row.law_name, <<"C","i","v","i","l"," ","P","r","o","c","e","d","u","r","e">>)
                         /\ row.order_number = order_num
                         /\ row.rule_number = rule_num)
         IN  IF rows = <<>> THEN [found |-> FALSE, source |-> "local_db"]
             ELSE Hit(rows[1], rows[1].section_text, <<>>)

\* search_judgments
search_judgments(db, query_text, limit) ==
    IF db.state = "missing" THEN <<>>
    ELSE IF db.state = "unreadable" THEN <<[found |-> FALSE, error |-> "query"]>>
    ELSE LET rows == Limit(SelectSeq(db.judgments, LAMBDA row :
                               \/ Like(row.title, query_text)
                               \/ Like(row.summary, query_text)
                               \/ Like(row.citation, query_text)), limit)
         IN  [k \in 1..Len(rows) |->
                 [found |-> TRUE, source |-> "local_db", type |-> "judgment",
                  title |-> rows[k].title, citation |-> rows[k].citation,
                  date |-> rows[k].judgment_date,
                  summary |-> IF rows[k].summary \in {Null, <<>>} THEN Null
                              ELSE Limit(rows[k].summary, 500)]]

\* a lookup as the pipeline issues it: the function and its arguments
SectionLookup(law_code, section_number) ==
    [fn |-> "search_by_section", text |-> law_code, number |-> section_number, order |-> 0, rule |-> 0]
OrderRuleLookup(order_num, rule_num) ==
    [fn |-> "search_cpc_order_rule", text |-> <<>>, number |-> <<>>, order |-> order_num, rule |-> rule_num]

\* "if result and result.get('found'): sections.append(result)" over the
\* calls; Lookup is the list of the dicts one call returns
RECURSIVE FoundBy(_, _)
FoundBy(db, calls) ==
    LET Lookup(call) ==
            IF call.fn = "search_by_section" THEN <<search_by_section(db, call.text, call.number)>>
            ELSE IF call.fn = "search_cpc_order_rule" THEN <<search_cpc_order_rule(db, call.order, call.rule)>>
            ELSE IF call.fn = "search_by_law_name" THEN search_by_law_name(db, call.text, call.order)
            ELSE search_by_keywords(db, call.text, call.order)
    IN  IF calls = <<>> THEN <<>>
        ELSE SelectSeq(Lookup(calls[1]), LAMBDA r : r.found) \o FoundBy(db, Tail(calls))

\* the numerals of smart_search's roman_map, each at the index it maps to
roman_map == <<
    <<"i">>, <<"i","i">>, <<"i","i","i">>, <<"i","v">>, <<"v">>, <<"v","i">>, <<"v","i","i">>, <<"v","i","i","i">>, <<"i","x">>, <<"x">>,
    <<"x","i">>, <<"x","i","i">>, <<"x","i","i","i">>, <<"x","i","v">>, <<"x","v">>, <<"x","v","i">>, <<"x","v","i","i">>, <<"x","v","i","i","i">>, <<"x","i","x">>, <<"x","x">>,
    <<"x","x","i">>, <<"x","x","i","i">>, <<"x","x","i","i","i">>, <<"x","x","i","v">>, <<"x","x","v">>, <<"x","x","v","i">>, <<"x","x","v","i","i">>, <<"x","x","v","i","i","i">>, <<"x","x","i","x">>, <<"x","x","x">>,
    <<"x","x","x","i">>, <<"x","x","x","i","i">>, <<"x","x","x","i","i","i">>, <<"x","x","x","i","v">>, <<"x","x","x","v">>, <<"x","x","x","v","i">>, <<"x","x","x","v","i","i">>, <<"x","x","x","v","i","i","i">>, <<"x","x","x","i","x">>, <<"x","l">> >>

\* order\s*([ivxlc]+|\d+)\s*rule\s*(\d+): part 3 is group 1, part 7 is group 2
OrderRulePattern == <<
    Lit(<<"o","r","d","e","r">>), Star(Ws), Alt(<<Plus(In({"i","v","x","l","c"})), Plus(Digit)>>), Star(Ws),
    Lit(<<"r","u","l","e">>), Star(Ws), Plus(Digit) >>

\* the lookups smart_search issues for its first three patterns, each for the
\* first match (re.search) in the lower-cased query
SmartLookups(query_text) ==
    LET first(ps) == IF ps = <<>> THEN <<>> ELSE ps[1]
        \* (?:section|sec|u/s)?\s*(\d+[A-Z]?)\s*(crpc|ppc|cpc|constitution)
        section(p) ==
            IF p = <<>> THEN <<>>
            ELSE <<SectionLookup(Upper(Group(Lower(query_text), p, 5)), Group(Lower(query_text), p, 3))>>
        \* article\s*(\d+)
        article(p) ==
            IF p = <<>> THEN <<>>
            ELSE <<SectionLookup(<<"C","o","n","s","t","i","t","u","t","i","o","n">>, Group(Lower(query_text), p, 3))>>
        number(order_raw) ==
            IF \E v \in 1..Len(roman_map) : roman_map[v] = order_raw
            THEN CHOOSE v \in 1..Len(roman_map) : roman_map[v] = order_raw
            ELSE IF \A k \in 1..Len(order_raw) : order_raw[k] \in DigitSet THEN ParseInt(order_raw)
            ELSE 0
        order(p) ==
            IF p = <<>> THEN <<>>
            ELSE IF number(Group(Lower(query_text), p, 3)) > 0
            THEN <<OrderRuleLookup(number(Group(Lower(query_text), p, 3)),
                                   ParseInt(Group(Lower(query_text), p, 7)))>>
            ELSE <<>>
    IN  section(first(FindPaths(<<Opt(Alt(<<Lit(<<"s","e","c","t","i","o","n">>), Lit(<<"s","e","c">>), Lit(<<"u","/","s">>)>>)), Star(Ws),
                                  Cat(<<Plus(Digit), Opt(In(LowerSet))>>), Star(Ws),
                                  Alt(<<Lit(<<"c","r","p","c">>), Lit(<<"p","p","c">>), Lit(<<"c","p","c">>), Lit(<<"c","o","n","s","t","i","t","u","t","i","o","n">>)>>)>>,
                                Lower(query_text), 0)))
        \o article(first(FindPaths(<<Lit(<<"a","r","t","i","c","l","e">>), Star(Ws), Plus(Digit)>>, Lower(query_text), 0)))
        \o order(first(FindPaths(OrderRulePattern, Lower(query_text), 0)))

\* smart_search: the sections of the pattern lookups, or else of the keyword
\* search, and the judgments
smart_search(db, query_text) ==
    LET or_keywords(sections) ==
            IF sections # <<>> THEN sections
            ELSE SelectSeq(search_by_keywords(db, query_text, 5), LAMBDA r : r.found)
    IN  [sections |-> or_keywords(FoundBy(db, SmartLookups(query_text))),
         judgments |-> SelectSeq(search_judgments(db, query_text, 3), LAMBDA r : r.found)]

(***************************************************************************)
(* Filter and organize: backend/routers/law_search/filter_organize.py      *)
(***************************************************************************)
\* "not x" of a string or None
Falsy(x) == x \in {Null, <<>>}

\* str(x) inside an f-string
Str(x) == IF x = Null THEN <<"N","o","n","e">> ELSE x

\* remove_duplicates
remove_duplicates(results) ==
    LET key(item) == SelectSeq(Lower(Str(item.law_name) \o <<"_">> \o Str(item.section_number)),
                               LAMBDA c : c \notin SpaceSet)
        RECURSIVE loop(_, _, _)
        loop(items, seen, unique) ==
            IF items = <<>> THEN unique
            ELSE IF ~items[1].found \/ key(items[1]) \in seen THEN loop(Tail(items), seen, unique)
            ELSE loop(Tail(items), seen \cup {key(items[1])}, Append(unique, items[1]))
    IN  loop(results, {}, <<>>)

\* validate_section
validate_section(item) ==
    /\ ~Falsy(item.law_name)
    /\ ~Falsy(item.section_number)
    /\ ~(Falsy(item.section_title) /\ Falsy(item.section_text))
    /\ ~(~Falsy(item.section_text) /\ Len(item.section_text) < 10)

\* validate_judgment
validate_judgment(item) ==
    /\ ~Falsy(item.title)
    /\ ~(Falsy(item.citation) /\ Falsy(item.summary))

\* calculate_relevance
calculate_relevance(item, query_text) ==
    LET query_lower == Lower(query_text)
        title == IF Falsy(item.section_title) THEN <<>> ELSE Lower(item.section_title)
        law_name == IF Falsy(item.law_name) THEN <<>> ELSE Lower(item.law_name)
        query_words == Split(query_lower)
        RECURSIVE words(_)
        words(k) == IF k = 0 THEN 0
                    ELSE words(k - 1)
                         + (IF Len(query_words[k]) > 3 /\ Contains(law_name, query_words[k]) THEN 10 ELSE 0)
        score == 50
                 + (IF Contains(title, query_lower) THEN 30 ELSE 0)
                 + (IF Contains(query_lower, Lower(Str(item.section_number))) THEN 20 ELSE 0)
                 + words(Len(query_words))
                 + (IF item.matched_keyword # <<>> THEN 15 ELSE 0)
                 + (IF ~Falsy(item.section_text) /\ Len(item.section_text) > 100 THEN 10 ELSE 0)
    IN  IF score < 100 THEN score ELSE 100

\* format_section_for_ai; len(text) of a None text raises TypeError
format_section_for_ai(item) ==
    IF item.section_text = Null THEN <<"TypeError">>
    ELSE Strip(<<"\n","[","L","A","W",":"," ">> \o Str(item.law_name) \o <<"]","\n","[","S","E","C","T","I","O","N",":"," ">> \o Str(item.section_number)
               \o <<"]","\n","[","T","I","T","L","E",":"," ">> \o Str(item.section_title) \o <<"]","\n","[","T","E","X","T",":","]","\n">>
               \o (IF Len(item.section_text) > 800
                   THEN SubSeq(item.section_text, 1, 800) \o <<".",".",".">>
                   ELSE item.section_text)
               \o <<"\n">>)

\* format_judgment_for_ai; len(summary) of a None summary raises TypeError
format_judgment_for_ai(item) ==
    IF item.summary = Null THEN <<"TypeError">>
    ELSE Strip(<<"\n","[","C","A","S","E",":"," ">> \o Str(item.title) \o <<"]","\n","[","C","I","T","A","T","I","O","N",":"," ">> \o Str(item.citation)
               \o <<"]","\n","[","D","A","T","E",":"," ">> \o Str(item.date) \o <<"]","\n","[","S","U","M","M","A","R","Y",":","]","\n">>
               \o (IF Len(item.summary) > 500 THEN SubSeq(item.summary, 1, 500) \o <<".",".",".">>
                   ELSE item.summary)
               \o <<"\n">>)

\* organize_results; [raised |-> TRUE] when formatting raises
organize_results(raw_results, query_text) ==
    LET scored(s) == [found |-> s.found, source |-> s.source, law_name |-> s.law_name,
                      section_number |-> s.section_number, section_title |-> s.section_title,
                      section_text |-> s.section_text, matched_keyword |-> s.matched_keyword,
                      relevance_score |-> calculate_relevance(s, query_text)]
        \* list.sort(key=relevance_score, reverse=True): stable
        RECURSIVE sort(_, _)
        sort(items, sorted) ==
            IF items = <<>> THEN sorted
            ELSE LET at == Cardinality({k \in 1..Len(sorted) :
                                           sorted[k].relevance_score >= items[1].relevance_score})
                 IN  sort(Tail(items), SubSeq(sorted, 1, at) \o <<items[1]>> \o SubSeq(sorted, at + 1, Len(sorted)))
        valid_sections == SelectSeq(remove_duplicates(raw_results.sections), validate_section)
        sections == Limit(sort([k \in 1..Len(valid_sections) |-> scored(valid_sections[k])], <<>>), 10)
        judgments == Limit(SelectSeq(raw_results.judgments, validate_judgment), 5)
        section_parts ==
            IF sections = <<>> THEN <<>>
            ELSE <<<<"=","=","="," ","R","E","L","E","V","A","N","T"," ","L","A","W"," ","S","E","C","T","I","O","N","S"," ","=","=","=">>>>
                 \o [k \in 1..(2 * Len(sections)) |->
                        IF k % 2 = 1 THEN <<"\n","-","-","-"," ","S","e","c","t","i","o","n"," ">> \o IntToStr((k + 1) \div 2) \o <<" ","-","-","-">>
                        ELSE format_section_for_ai(sections[k \div 2])]
        judgment_parts ==
            IF judgments = <<>> THEN <<>>
            ELSE <<<<"\n","\n","=","=","="," ","R","E","L","E","V","A","N","T"," ","J","U","D","G","M","E","N","T","S"," ","=","=","=">>>>
                 \o [k \in 1..(2 * Len(judgments)) |->
                        IF k % 2 = 1 THEN <<"\n","-","-","-"," ","J","u","d","g","m","e","n","t"," ">> \o IntToStr((k + 1) \div 2) \o <<" ","-","-","-">>
                        ELSE format_judgment_for_ai(judgments[k \div 2])]
        ai_parts == IF section_parts \o judgment_parts = <<>>
                    THEN <<<<"[","N","O"," ","R","E","L","E","V","A","N","T"," ","L","A","W"," ","S","E","C","T","I","O","N","S"," ","F","O","U","N","D"," ","I","N"," ","D","A","T","A","B","A","S","E","]">>>>
                    ELSE section_parts \o judgment_parts
    IN  IF <<"TypeError">> \in Range(ai_parts) THEN [raised |-> TRUE]
        ELSE [raised |-> FALSE,
              query |-> query_text,
              sections |-> sections,
              judgments |-> judgments,
              formatted_for_ai |-> Join(ai_parts, <<"\n">>),
              total_valid |-> Len(sections) + Len(judgments),
              sufficient |-> Len(sections) + Len(judgments) >= 1]

(***************************************************************************)
(* Search Orchestrator: backend/services/search_orchestrator.py            *)
(***************************************************************************)
\* DOCUMENT_SECTIONS, in the order of the dict; a key that an entry does not
\* hold is the empty list that doc_config.get(key, []) gives
DOCUMENT_SECTIONS == <<
    [key |-> <<"B","a","i","l"," ","P","e","t","i","t","i","o","n"," ","(","P","o","s","t","-","A","r","r","e","s","t",")">>,
     title |-> <<"B","a","i","l"," ","P","e","t","i","t","i","o","n"," ","(","P","o","s","t","-","A","r","r","e","s","t",")">>,
     required |-> <<<<<<"C","r","P","C">>, <<"4","9","7">>>>, <<<<"C","r","P","C">>, <<"4","9","8">>>>, <<<<"C","r","P","C">>, <<"4","9","6">>>>, <<<<"C","r","P","C">>, <<"4","9","9">>>>>>,
     law_names |-> <<>>,
     order_rules |-> <<>>,
     keywords |-> <<<<"b","a","i","l">>, <<"n","o","n","-","b","a","i","l","a","b","l","e">>, <<"a","r","r","e","s","t">>, <<"c","u","s","t","o","d","y">>, <<"r","e","m","a","n","d">>>>],
    [key |-> <<"B","a","i","l"," ","P","e","t","i","t","i","o","n"," ","(","P","r","e","-","A","r","r","e","s","t",")">>,
     title |-> <<"B","a","i","l"," ","P","e","t","i","t","i","o","n"," ","(","P","r","e","-","A","r","r","e","s","t","/","A","n","t","i","c","i","p","a","t","o","r","y",")">>,
     required |-> <<<<<<"C","r","P","C">>, <<"4","9","8">>>>, <<<<"C","r","P","C">>, <<"4","9","7">>>>>>,
     law_names |-> <<>>,
     order_rules |-> <<>>,
     keywords |-> <<<<"a","n","t","i","c","i","p","a","t","o","r","y">>, <<"b","a","i","l">>, <<"a","p","p","r","e","h","e","n","s","i","o","n">>, <<"F","I","R">>>>],
    [key |-> <<"L","e","g","a","l"," ","N","o","t","i","c","e">>,
     title |-> <<"L","e","g","a","l"," ","N","o","t","i","c","e">>,
     required |-> <<>>,
     law_names |-> <<>>,
     order_rules |-> <<>>,
     keywords |-> <<<<"n","o","t","i","c","e">>, <<"d","e","m","a","n","d">>, <<"c","o","m","p","l","i","a","n","c","e">>, <<"b","r","e","a","c","h">>, <<"n","u","i","s","a","n","c","e">>, <<"t","r","e","s","p","a","s","s">>>>],
    [key |-> <<"S","u","i","t"," ","f","o","r"," ","R","e","c","o","v","e","r","y">>,
     title |-> <<"S","u","i","t"," ","f","o","r"," ","R","e","c","o","v","e","r","y"," ","o","f"," ","M","o","n","e","y">>,
     required |-> <<<<<<"C","P","C">>, <<"9">>>>, <<<<"C","P","C">>, <<"1","0">>>>, <<<<"C","P","C">>, <<"1","1">>>>>>,
     law_names |-> <<>>,
     order_rules |-> <<>>,
     keywords |-> <<<<"r","e","c","o","v","e","r","y">>, <<"m","o","n","e","y">>, <<"d","e","b","t">>, <<"d","e","c","r","e","e">>, <<"d","a","m","a","g","e","s">>>>],
    [key |-> <<"S","t","a","y"," ","A","p","p","l","i","c","a","t","i","o","n">>,
     title |-> <<"S","t","a","y"," ","A","p","p","l","i","c","a","t","i","o","n">>,
     required |-> <<>>,
     law_names |-> <<>>,
     order_rules |-> <<<<39, 1>>, <<39, 2>>>>,
     keywords |-> <<<<"s","t","a","y">>, <<"i","n","j","u","n","c","t","i","o","n">>, <<"i","n","t","e","r","i","m"," ","r","e","l","i","e","f">>, <<"s","t","a","t","u","s"," ","q","u","o">>>>],
    [key |-> <<"D","i","v","o","r","c","e"," ","D","e","e","d"," ","(","T","a","l","a","q","-","n","a","m","a",")">>,
     title |-> <<"S","u","i","t"," ","f","o","r"," ","D","i","s","s","o","l","u","t","i","o","n"," ","o","f"," ","M","a","r","r","i","a","g","e"," ","(","K","h","u","l","a",")">>,
     required |-> <<<<<<"M","F","L","O">>, <<"7">>>>, <<<<"M","F","L","O">>, <<"8">>>>, <<<<"M","F","L","O">>, <<"9">>>>, <<<<"M","F","L","O">>, <<"1","0">>>>>>,
     law_names |-> <<<<"M","u","s","l","i","m"," ","F","a","m","i","l","y"," ","L","a","w","s">>, <<"D","i","s","s","o","l","u","t","i","o","n"," ","o","f"," ","M","u","s","l","i","m"," ","M","a","r","r","i","a","g","e","s">>>>,
     order_rules |-> <<>>,
     keywords |-> <<<<"k","h","u","l","a">>, <<"t","a","l","a","q">>, <<"d","i","v","o","r","c","e">>, <<"d","i","s","s","o","l","u","t","i","o","n">>, <<"m","a","r","r","i","a","g","e">>, <<"m","e","h","r">>, <<"d","o","w","e","r">>>>],
    [key |-> <<"C","u","s","t","o","d","y"," ","P","e","t","i","t","i","o","n">>,
     title |-> <<"C","h","i","l","d"," ","C","u","s","t","o","d","y"," ","P","e","t","i","t","i","o","n"," ","(","H","i","z","a","n","a","t",")">>,
     required |-> <<>>,
     law_names |-> <<<<"G","u","a","r","d","i","a","n","s"," ","a","n","d"," ","W","a","r","d","s"," ","A","c","t">>>>,
     order_rules |-> <<>>,
     keywords |-> <<<<"c","u","s","t","o","d","y">>, <<"c","h","i","l","d">>, <<"g","u","a","r","d","i","a","n">>, <<"h","i","z","a","n","a","t">>, <<"w","e","l","f","a","r","e">>, <<"m","i","n","o","r">>>>],
    [key |-> <<"C","h","e","q","u","e"," ","D","i","s","h","o","n","o","u","r">>,
     title |-> <<"C","o","m","p","l","a","i","n","t"," ","u","n","d","e","r"," ","S","e","c","t","i","o","n"," ","4","8","9","-","F"," ","P","P","C">>,
     required |-> <<<<<<"P","P","C">>, <<"4","8","9","F">>>>, <<<<"P","P","C">>, <<"4","8","9">>>>>>,
     law_names |-> <<>>,
     order_rules |-> <<>>,
     keywords |-> <<<<"c","h","e","q","u","e">>, <<"d","i","s","h","o","n","o","u","r">>, <<"b","o","u","n","c","e">>, <<"b","a","n","k">>, <<"f","r","a","u","d">>>>],
    [key |-> <<"Q","u","a","s","h","i","n","g"," ","F","I","R">>,
     title |-> <<"P","e","t","i","t","i","o","n"," ","f","o","r"," ","Q","u","a","s","h","i","n","g"," ","F","I","R">>,
     required |-> <<<<<<"C","r","P","C">>, <<"5","6","1","A">>>>, <<<<"C","o","n","s","t","i","t","u","t","i","o","n">>, <<"1","9","9">>>>>>,
     law_names |-> <<>>,
     order_rules |-> <<>>,
     keywords |-> <<<<"q","u","a","s","h">>, <<"F","I","R">>, <<"m","a","l","a"," ","f","i","d","e">>, <<"a","b","u","s","e"," ","o","f"," ","p","r","o","c","e","s","s">>>>],
    [key |-> <<"W","r","i","t"," ","P","e","t","i","t","i","o","n">>,
     title |-> <<"C","o","n","s","t","i","t","u","t","i","o","n","a","l"," ","W","r","i","t"," ","P","e","t","i","t","i","o","n">>,
     required |-> <<<<<<"C","o","n","s","t","i","t","u","t","i","o","n">>, <<"1","9","9">>>>, <<<<"C","o","n","s","t","i","t","u","t","i","o","n">>, <<"1","8","4">>>>, <<<<"C","o","n","s","t","i","t","u","t","i","o","n">>, <<"4">>>>>>,
     law_names |-> <<>>,
     order_rules |-> <<>>,
     keywords |-> <<<<"f","u","n","d","a","m","e","n","t","a","l"," ","r","i","g","h","t","s">>, <<"w","r","i","t">>, <<"m","a","n","d","a","m","u","s">>, <<"c","e","r","t","i","o","r","a","r","i">>, <<"h","a","b","e","a","s"," ","c","o","r","p","u","s">>>>],
    [key |-> <<"b","a","i","l","_","p","o","s","t","_","a","r","r","e","s","t">>,
     title |-> <<"B","a","i","l"," ","P","e","t","i","t","i","o","n"," ","(","P","o","s","t","-","A","r","r","e","s","t",")">>,
     required |-> <<<<<<"C","r","P","C">>, <<"4","9","7">>>>, <<<<"C","r","P","C">>, <<"4","9","8">>>>>>,
     law_names |-> <<>>,
     order_rules |-> <<>>,
     keywords |-> <<<<"b","a","i","l">>, <<"n","o","n","-","b","a","i","l","a","b","l","e">>, <<"a","r","r","e","s","t">>>>],
    [key |-> <<"b","a","i","l","_","p","r","e","_","a","r","r","e","s","t">>,
     title |-> <<"B","a","i","l"," ","P","e","t","i","t","i","o","n"," ","(","P","r","e","-","A","r","r","e","s","t","/","A","n","t","i","c","i","p","a","t","o","r","y",")">>,
     required |-> <<<<<<"C","r","P","C">>, <<"4","9","8">>>>>>,
     law_names |-> <<>>,
     order_rules |-> <<>>,
     keywords |-> <<<<"a","n","t","i","c","i","p","a","t","o","r","y">>, <<"b","a","i","l">>>>],
    [key |-> <<"l","e","g","a","l","_","n","o","t","i","c","e">>,
     title |-> <<"L","e","g","a","l"," ","N","o","t","i","c","e">>,
     required |-> <<<<<<"C","P","C">>, <<"8","0">>>>>>,
     law_names |-> <<>>,
     order_rules |-> <<>>,
     keywords |-> <<<<"n","o","t","i","c","e">>, <<"d","e","m","a","n","d">>>>],
    [key |-> <<"w","r","i","t","_","p","e","t","i","t","i","o","n">>,
     title |-> <<"C","o","n","s","t","i","t","u","t","i","o","n","a","l"," ","W","r","i","t"," ","P","e","t","i","t","i","o","n">>,
     required |-> <<<<<<"C","o","n","s","t","i","t","u","t","i","o","n">>, <<"1","9","9">>>>, <<<<"C","o","n","s","t","i","t","u","t","i","o","n">>, <<"4">>>>>>,
     law_names |-> <<>>,
     order_rules |-> <<>>,
     keywords |-> <<<<"f","u","n","d","a","m","e","n","t","a","l"," ","r","i","g","h","t","s">>, <<"w","r","i","t">>>>],
    [key |-> <<"s","u","i","t","_","r","e","c","o","v","e","r","y">>,
     title |-> <<"S","u","i","t"," ","f","o","r"," ","R","e","c","o","v","e","r","y"," ","o","f"," ","M","o","n","e","y">>,
     required |-> <<<<<<"C","P","C">>, <<"9">>>>>>,
     law_names |-> <<>>,
     order_rules |-> <<>>,
     keywords |-> <<<<"r","e","c","o","v","e","r","y">>, <<"m","o","n","e","y">>, <<"d","e","b","t">>>>],
    [key |-> <<"d","i","v","o","r","c","e","_","k","h","u","l","a">>,
     title |-> <<"S","u","i","t"," ","f","o","r"," ","D","i","s","s","o","l","u","t","i","o","n"," ","o","f"," ","M","a","r","r","i","a","g","e"," ","(","K","h","u","l","a",")">>,
     required |-> <<>>,
     law_names |-> <<<<"M","u","s","l","i","m"," ","F","a","m","i","l","y"," ","L","a","w","s">>, <<"D","i","s","s","o","l","u","t","i","o","n"," ","o","f"," ","M","u","s","l","i","m"," ","M","a","r","r","i","a","g","e","s">>>>,
     order_rules |-> <<>>,
     keywords |-> <<<<"k","h","u","l","a">>, <<"d","i","s","s","o","l","u","t","i","o","n">>, <<"m","a","r","r","i","a","g","e">>>>],
    [key |-> <<"d","i","v","o","r","c","e","_","t","a","l","a","q">>,
     title |-> <<"T","a","l","a","q"," ","(","D","i","v","o","r","c","e"," ","b","y"," ","H","u","s","b","a","n","d",")">>,
     required |-> <<>>,
     law_names |-> <<<<"M","u","s","l","i","m"," ","F","a","m","i","l","y"," ","L","a","w","s">>>>,
     order_rules |-> <<>>,
     keywords |-> <<<<"t","a","l","a","q">>, <<"d","i","v","o","r","c","e">>>>],
    [key |-> <<"r","e","n","t","_","p","e","t","i","t","i","o","n">>,
     title |-> <<"R","e","n","t"," ","P","e","t","i","t","i","o","n"," ","/"," ","E","j","e","c","t","m","e","n","t">>,
     required |-> <<<<<<"C","P","C">>, <<"1","3">>>>>>,
     law_names |-> <<>>,
     order_rules |-> <<>>,
     keywords |-> <<<<"r","e","n","t">>, <<"t","e","n","a","n","t">>, <<"e","j","e","c","t","m","e","n","t">>>>],
    [key |-> <<"s","t","a","y","_","a","p","p","l","i","c","a","t","i","o","n">>,
     title |-> <<"S","t","a","y"," ","A","p","p","l","i","c","a","t","i","o","n">>,
     required |-> <<>>,
     law_names |-> <<>>,
     order_rules |-> <<<<39, 1>>, <<39, 2>>>>,
     keywords |-> <<<<"s","t","a","y">>, <<"i","n","j","u","n","c","t","i","o","n">>>>],
    [key |-> <<"c","h","e","q","u","e","_","d","i","s","h","o","n","o","u","r">>,
     title |-> <<"C","o","m","p","l","a","i","n","t"," ","u","n","d","e","r"," ","S","e","c","t","i","o","n"," ","4","8","9","-","F"," ","P","P","C">>,
     required |-> <<<<<<"P","P","C">>, <<"4","8","9","F">>>>>>,
     law_names |-> <<>>,
     order_rules |-> <<>>,
     keywords |-> <<<<"c","h","e","q","u","e">>, <<"d","i","s","h","o","n","o","u","r">>>>],
    [key |-> <<"c","u","s","t","o","d","y","_","p","e","t","i","t","i","o","n">>,
     title |-> <<"C","h","i","l","d"," ","C","u","s","t","o","d","y"," ","P","e","t","i","t","i","o","n"," ","(","H","i","z","a","n","a","t",")">>,
     required |-> <<>>,
     law_names |-> <<<<"G","u","a","r","d","i","a","n","s"," ","a","n","d"," ","W","a","r","d","s"," ","A","c","t">>>>,
     order_rules |-> <<>>,
     keywords |-> <<<<"c","u","s","t","o","d","y">>, <<"c","h","i","l","d">>, <<"g","u","a","r","d","i","a","n">>>>],
    [key |-> <<"q","u","a","s","h","i","n","g","_","f","i","r">>,
     title |-> <<"P","e","t","i","t","i","o","n"," ","f","o","r"," ","Q","u","a","s","h","i","n","g"," ","F","I","R">>,
     required |-> <<<<<<"C","r","P","C">>, <<"5","6","1","A">>>>>>,
     law_names |-> <<>>,
     order_rules |-> <<>>,
     keywords |-> <<<<"q","u","a","s","h">>, <<"f","i","r">>>>],
    [key |-> <<"m","a","i","n","t","e","n","a","n","c","e">>,
     title |-> <<"S","u","i","t"," ","f","o","r"," ","M","a","i","n","t","e","n","a","n","c","e">>,
     required |-> <<>>,
     law_names |-> <<<<"M","u","s","l","i","m"," ","F","a","m","i","l","y"," ","L","a","w","s">>, <<"F","a","m","i","l","y"," ","C","o","u","r","t","s"," ","A","c","t">>>>,
     order_rules |-> <<>>,
     keywords |-> <<<<"m","a","i","n","t","e","n","a","n","c","e">>, <<"n","a","f","a","q","a">>>>] >>

\* doc_config: the entry of the category, or else the first entry whose key
\* holds the category or is held by it (letter case ignored), or else {}
doc_config(category_name) ==
    LET exact == {k \in 1..Len(DOCUMENT_SECTIONS) : DOCUMENT_SECTIONS[k].key = category_name}
        partial == {k \in 1..Len(DOCUMENT_SECTIONS) :
                       \/ Contains(Lower(DOCUMENT_SECTIONS[k].key), Lower(category_name))
                       \/ Contains(Lower(category_name), Lower(DOCUMENT_SECTIONS[k].key))}
    IN  IF exact # {} THEN DOCUMENT_SECTIONS[Least(exact)]
        ELSE IF partial # {} THEN DOCUMENT_SECTIONS[Least(partial)]
        ELSE [key |-> <<>>, title |-> category_name, required |-> <<>>, law_names |-> <<>>,
              order_rules |-> <<>>, keywords |-> <<>>]

\* extract_references_from_text
extract_references_from_text(text) ==
    LET refs(text_lower, section_pattern, direct_pattern, article_pattern, order_pattern) ==
            LET RECURSIVE direct(_, _)
                direct(k, sections) ==
                    IF k > Len(direct_pattern) THEN sections
                    ELSE LET ref == [number |-> Upper(Group(text_lower, direct_pattern[k], 2)),
                                     law |-> Upper(Group(text_lower, direct_pattern[k], 4))]
                         IN  direct(k + 1, IF ref \in Range(sections) THEN sections ELSE Append(sections, ref))
            IN  [sections |-> direct(1, [k \in 1..Len(section_pattern) |->
                                           [number |-> Upper(Group(text_lower, section_pattern[k], 3)),
                                            law |-> Upper(Group(text_lower, section_pattern[k], 5))]]),
                 articles |-> [k \in 1..Len(article_pattern) |-> Group(text_lower, article_pattern[k], 3)],
                 orders |-> [k \in 1..Len(order_pattern) |->
                                [order |-> Group(text_lower, order_pattern[k], 3),
                                 rule |-> Group(text_lower, order_pattern[k], 7)]]]
    IN  refs(Lower(text),
             \* (?:section|sec|u/s)\s*(\d+[A-Z]?)\s*(crpc|ppc|cpc)
             FindPaths(<<Alt(<<Lit(<<"s","e","c","t","i","o","n">>), Lit(<<"s","e","c">>), Lit(<<"u","/","s">>)>>), Star(Ws),
                         Cat(<<Plus(Digit), Opt(In(LowerSet))>>), Star(Ws),
                         Alt(<<Lit(<<"c","r","p","c">>), Lit(<<"p","p","c">>), Lit(<<"c","p","c">>)>>)>>, Lower(text), 0),
             \* \b(\d+[A-Z]?)\s+(ppc|crpc|cpc)\b
             FindPaths(<<WB, Cat(<<Plus(Digit), Opt(In(LowerSet))>>), Plus(Ws),
                         Alt(<<Lit(<<"p","p","c">>), Lit(<<"c","r","p","c">>), Lit(<<"c","p","c">>)>>), WB>>, Lower(text), 0),
             \* article\s*(\d+)
             FindPaths(<<Lit(<<"a","r","t","i","c","l","e">>), Star(Ws), Plus(Digit)>>, Lower(text), 0),
             FindPaths(OrderRulePattern, Lower(text), 0))

\* steps 1 to 5 of search_for_document: the lookups they issue, in order
StepLookups(config, user_refs) ==
    LET \* the roman_map of step 4 holds i to xxi, xxxix and xl
        number(order_num) ==
            IF \A k \in 1..Len(order_num) : order_num[k] \in DigitSet THEN ParseInt(order_num)
            ELSE IF \E v \in (1..21) \cup {39, 40} : roman_map[v] = Lower(order_num)
            THEN CHOOSE v \in (1..21) \cup {39, 40} : roman_map[v] = Lower(order_num)
            ELSE 0
        RECURSIVE orders(_)
        orders(refs) ==
            IF refs = <<>> THEN <<>>
            ELSE (IF number(refs[1].order) > 0
                  THEN <<OrderRuleLookup(number(refs[1].order), ParseInt(refs[1].rule))>>
                  ELSE <<>>) \o orders(Tail(refs))
    IN  [k \in 1..Len(config.required) |-> SectionLookup(config.required[k][1], config.required[k][2])]
        \o [k \in 1..Len(config.law_names) |->
               [fn |-> "search_by_law_name", text |-> config.law_names[k], number |-> <<>>,
                order |-> 5, rule |-> 0]]
        \o [k \in 1..Len(config.order_rules) |->
               OrderRuleLookup(config.order_rules[k][1], config.order_rules[k][2])]
        \o [k \in 1..Len(user_refs.sections) |->
               SectionLookup(user_refs.sections[k].law, user_refs.sections[k].number)]
        \o [k \in 1..Len(user_refs.articles) |-> SectionLookup(<<"C","o","n","s","t","i","t","u","t","i","o","n">>, user_refs.articles[k])]
        \o orders(user_refs.orders)
        \o (IF config.keywords = <<>> THEN <<>>
            ELSE <<[fn |-> "search_by_keywords", text |-> Join(config.keywords, <<" ">>),
                    number |-> <<>>, order |-> 3, rule |-> 0]>>)

\* mutant: the external search is needed below two local results only
search_for_missing_sections_below_two(local_results, external) ==
    IF local_results.total_valid >= 2 THEN [needed |-> FALSE, sections |-> <<>>, success |-> FALSE]
    ELSE [needed |-> TRUE,
          sections |-> IF external.raises THEN <<>> ELSE external.sections,
          success |-> ~external.raises /\ external.sections # <<>>]

\* search_for_missing_sections: what the external search gave; the list of
\* missing sections only words the prompt.  external is the outcome of the
\* call of the language model in search_external: it raises, or it answers
\* with a text that parse_external_response turns into sections
search_for_missing_sections(local_results, external) ==
    IF local_results.total_valid >= 3 THEN [needed |-> FALSE, sections |-> <<>>, success |-> FALSE]
    ELSE [needed |-> TRUE,
          sections |-> IF external.raises THEN <<>> ELSE external.sections,
          success |-> ~external.raises /\ external.sections # <<>>]

\* search_for_document: the bundle, or [raised |-> TRUE] when an exception
\* escapes
search_for_document(db, category_name, facts_text, external) ==
    LET \* step 8 of search_for_document on the organized bundle; keys holds the
        \* names of the keys of the dict that are set only on some paths, and
        \* external_calls counts the calls of search_external.  Nothing
        \* inside the try raises: search_external catches the exception of its model
        \* call, and the dicts it returns hold strings
        WithExternal(organized, found) ==
            IF organized.total_valid >= 3
            THEN [organized EXCEPT !.external_used = FALSE, !.keys = {"external_used"}]
            ELSE IF found.success /\ found.sections # <<>>
            THEN [organized EXCEPT
                     !.external_calls = IF found.needed THEN 1 ELSE 0,
                     !.sections = @ \o found.sections,
                     !.total_valid = Len(organized.sections) + Len(found.sections),
                     !.external_used = TRUE,
                     !.external_sections = Len(found.sections),
                     !.keys = {"external_used", "external_sections"},
                     !.formatted_for_ai =
                         @ \o Join([k \in 1..Len(found.sections) |->
                                       <<"\n","\n","-","-","-"," ","E","x","t","e","r","n","a","l"," ","S","o","u","r","c","e"," ","-","-","-","\n">>
                                       \o format_section_for_ai(found.sections[k])], <<>>)]
            ELSE [organized EXCEPT !.external_calls = IF found.needed THEN 1 ELSE 0]
        finish(config, organized) ==
            IF organized.raised THEN organized
            ELSE WithExternal([raised |-> FALSE,
                               query |-> organized.query,
                               sections |-> organized.sections,
                               judgments |-> organized.judgments,
                               formatted_for_ai |-> organized.formatted_for_ai,
                               total_valid |-> organized.total_valid,
                               sufficient |-> organized.sufficient,
                               category |-> category_name,
                               document_title |-> config.title,
                               needs_external |-> ~organized.sufficient,
                               external_used |-> FALSE,
                               external_sections |-> 0,
                               external_calls |-> 0,
                               keys |-> {}],
                              search_for_missing_sections(organized, external))
        gather(config, fact_results) ==
            organize_results(
                [sections |-> FoundBy(db, StepLookups(config, extract_references_from_text(facts_text)))
                              \o fact_results.sections,
                 judgments |-> fact_results.judgments],
                config.title \o <<" ">> \o Limit(facts_text, 100))
    IN  finish(doc_config(category_name),
               gather(doc_config(category_name), smart_search(db, facts_text)))

MaxStored == 3

\* the most sections one answer of the external search holds
MaxExternal == 11

\* POST /api/draft: request.category and request.facts
SearchRequest ==
    Request({<<"S","u","i","t"," ","f","o","r"," ","R","e","c","o","v","e","r","y">>, <<"L","e","g","a","l"," ","N","o","t","i","c","e">>, <<"S","t","a","y"," ","A","p","p","l","i","c","a","t","i","o","n">>, <<"A","p","p","e","a","l">>, <<"l","e","g","a","l","_","n","o","t","i","c","e">>},
            {<<"r","e","c","o","v","e","r","y"," ","o","f"," ","l","o","a","n">>, <<"s","e","c","t","i","o","n"," ","9"," ","C","P","C">>, <<"O","r","d","e","r"," ","X","X","X","I","X"," ","R","u","l","e"," ","1">>, <<"O","r","d","e","r"," ","X","L","I"," ","R","u","l","e"," ","1">>})

\* db_results = search_for_document(category, request.facts); query records
\* what the external search answered and the lookups the call issued
SearchForDocument ==
    LET \* rows the table law_sections may hold, in the order they were inserted:
        \* Section 9 of the CPC stored twice, with a short and with a long text, a
        \* row without text and a row without title, and two order/rule rows
        StoredRows == <<
            [law_name |-> CPC_LAW_NAME, section_number |-> <<"9">>,
             section_title |-> <<"C","o","u","r","t","s"," ","t","o"," ","t","r","y"," ","a","l","l"," ","c","i","v","i","l"," ","s","u","i","t","s">>,
             section_text |-> <<"C","o","u","r","t","s"," ","t","r","y"," ","c","i","v","i","l"," ","s","u","i","t","s">>, order_number |-> 0, rule_number |-> 0],
            [law_name |-> CPC_LAW_NAME, section_number |-> <<"9">>,
             section_title |-> <<"C","o","u","r","t","s"," ","t","o"," ","t","r","y"," ","a","l","l"," ","c","i","v","i","l"," ","s","u","i","t","s">>,
             section_text |-> <<"T","h","e"," ","C","o","u","r","t","s"," ","s","h","a","l","l"," ","t","r","y"," ","a","l","l"," ","s","u","i","t","s"," ","o","f"," ","a"," ","c","i","v","i","l"," ","n","a","t","u","r","e",","," ","r","e","c","o","v","e","r","y"," ","o","f"," ","m","o","n","e","y"," ","i","n","c","l","u","d","e","d">>,
             order_number |-> 0, rule_number |-> 0],
            [law_name |-> CPC_LAW_NAME, section_number |-> <<"1","0">>,
             section_title |-> <<"S","t","a","y"," ","o","f"," ","s","u","i","t">>, section_text |-> Null, order_number |-> 0, rule_number |-> 0],
            [law_name |-> CPC_LAW_NAME, section_number |-> <<"1","1">>,
             section_title |-> Null, section_text |-> <<"R","e","s"," ","j","u","d","i","c","a","t","a"," ","b","a","r","s"," ","a"," ","s","e","c","o","n","d"," ","s","u","i","t">>,
             order_number |-> 0, rule_number |-> 0],
            [law_name |-> CPC_LAW_NAME, section_number |-> <<"O","3","9","R","1">>,
             section_title |-> <<"O","r","d","e","r"," ","3","9"," ","R","u","l","e"," ","1">>,
             section_text |-> <<"C","a","s","e","s"," ","i","n"," ","w","h","i","c","h"," ","t","e","m","p","o","r","a","r","y"," ","i","n","j","u","n","c","t","i","o","n"," ","m","a","y"," ","b","e"," ","g","r","a","n","t","e","d">>,
             order_number |-> 39, rule_number |-> 1],
            [law_name |-> CPC_LAW_NAME, section_number |-> <<"O","4","1","R","1">>,
             section_title |-> <<"O","r","d","e","r"," ","4","1"," ","R","u","l","e"," ","1">>,
             section_text |-> <<"F","o","r","m"," ","o","f"," ","a","p","p","e","a","l"," ","a","n","d"," ","m","e","m","o","r","a","n","d","u","m">>,
             order_number |-> 41, rule_number |-> 1]
        >>
        \* the database as a request finds it: the file is missing or is not a
        \* database, or law_sections holds up to MaxStored of the rows and judgments
        \* holds one judgment or none
        Databases ==
            LET RECURSIVE stored(_)
                stored(ks) == IF ks = {} THEN <<>>
                              ELSE <<StoredRows[Least(ks)]>> \o stored(ks \ {Least(ks)})
            IN  {[state |-> s, law_sections |-> <<>>, judgments |-> <<>>] : s \in {"missing", "unreadable"}}
                \cup {[state |-> "ok", law_sections |-> stored(ks), judgments |-> js] :
                         ks \in {t \in SUBSET (1..Len(StoredRows)) : Cardinality(t) <= MaxStored},
                         js \in {<<>>, <<[title |-> <<"S","u","i","t"," ","f","o","r"," ","r","e","c","o","v","e","r","y"," ","o","f"," ","l","o","a","n"," ","d","e","c","r","e","e","d">>,
                                     citation |-> <<"2","0","2","0"," ","S","C","M","R"," ","1">>, judgment_date |-> Null,
                                     summary |-> <<"r","e","c","o","v","e","r","y"," ","o","f"," ","l","o","a","n"," ","a","l","l","o","w","e","d">>]>>}}
    IN  (
    /\ pc = "requested"
    /\ \E db \in Databases,
          external \in {[raises |-> TRUE, sections |-> <<>>],
                        [raises |-> FALSE, sections |-> <<>>],
                        [raises |-> FALSE,
                         sections |-> <<[found |-> TRUE, source |-> "external_search",
                                         law_name |-> <<"C","o","d","e"," ","o","f"," ","C","i","v","i","l"," ","P","r","o","c","e","d","u","r","e"," ","1","9","0","8">>,
                                         section_number |-> <<"9">>,
                                         section_title |-> <<"9"," ","o","f"," ","C","P","C">>,
                                         section_text |-> <<"T","h","e"," ","C","o","u","r","t","s"," ","s","h","a","l","l"," ","h","a","v","e"," ","j","u","r","i","s","d","i","c","t","i","o","n">>]>>],
                        [raises |-> FALSE,
                         sections |-> [k \in 1..MaxExternal |->
                                         [found |-> TRUE, source |-> "external_search",
                                          law_name |-> <<"C","o","d","e"," ","o","f"," ","C","i","v","i","l"," ","P","r","o","c","e","d","u","r","e"," ","1","9","0","8">>,
                                          section_number |-> IntToStr(k),
                                          section_title |-> IntToStr(k) \o <<" ","o","f"," ","C","P","C">>,
                                          section_text |-> <<"T","h","e"," ","C","o","u","r","t","s"," ","s","h","a","l","l"," ","h","a","v","e"," ","j","u","r","i","s","d","i","c","t","i","o","n">>]]]} :
          /\ corpus' = db
          /\ query' = [fn |-> "search_for_document", external |-> external,
                       lookups |-> StepLookups(doc_config(category), extract_references_from_text(facts))
                                   \o SmartLookups(facts)]
          /\ result' = search_for_document(db, category, facts, external)
    /\ pc' = "searched"
    /\ UNCHANGED <<category, facts, analysis, draft, validation>>
    )

NextSearch == SearchRequest \/ SearchForDocument

SpecSearch == Init /\ [][NextSearch]_vars

(***************************************************************************)
(* Claims about the search pipeline                                        *)
(***************************************************************************)

\* the key under which remove_duplicates takes two sections for the same one
DedupKey(item) ==
    SelectSeq(Lower(Str(item.law_name) \o <<"_">> \o Str(item.section_number)),
              LAMBDA c : c \notin SpaceSet)

\* of every two candidates with one key and texts of different lengths, the
\* sections kept hold one entry with that key, and none shorter than either
LongerKept(all_sections, kept) ==
    \A a, b \in 1..Len(all_sections) :
        /\ DedupKey(all_sections[a]) = DedupKey(all_sections[b])
        /\ Len(Str(all_sections[a].section_text)) < Len(Str(all_sections[b].section_text))
        => /\ Cardinality({k \in 1..Len(kept) : DedupKey(kept[k]) = DedupKey(all_sections[a])}) = 1
           /\ \A k \in 1..Len(kept) :
                  DedupKey(kept[k]) = DedupKey(all_sections[a])
                  => Len(Str(kept[k].section_text)) >= Len(Str(all_sections[b].section_text))

\* C12: when the candidates merged by search_for_document hold two found
\* sections with the same normalized (law_name, section_number) key and
\* texts of different lengths, the bundle holds exactly one entry for that
\* key, the one with the longer text, whatever step produced which
C12_LongerTextKept ==
    pc = "searched" /\ ~result.raised
    => LongerKept(FoundBy(corpus, StepLookups(doc_config(category), extract_references_from_text(facts)))
                  \o smart_search(corpus, facts).sections,
                  result.sections)

\* C13: with no local match and an external call that fails,
\* search_for_document returns without raising a bundle with no sections and
\* no judgments, where sufficient is false and external_used is present and
\* false
C13_FailedExternalBundle ==
    /\ pc = "searched"
    /\ corpus.law_sections = <<>>
    /\ corpus.judgments = <<>>
    /\ query.external.raises
    => /\ ~result.raised
       /\ result.sections = <<>>
       /\ result.judgments = <<>>
       /\ ~result.sufficient
       /\ "external_used" \in result.keys
       /\ ~result.external_used

\* the words of the facts cite, from word i on, an order and a rule, or a
\* section of a code
CitesOrderRule(words, i) ==
    /\ i + 3 <= Len(words)
    /\ words[i] = <<"o","r","d","e","r">>
    /\ words[i + 2] = <<"r","u","l","e">>
    /\ \A k \in 1..Len(words[i + 3]) : words[i + 3][k] \in DigitSet
    /\ IntOrRoman(words[i + 1]) \in 1..51
CitesSection(words, i) ==
    /\ i + 2 <= Len(words)
    /\ words[i] = <<"s","e","c","t","i","o","n">>
    /\ \A k \in 1..Len(words[i + 1]) : words[i + 1][k] \in DigitSet
    /\ words[i + 2] \in {<<"c","p","c">>, <<"p","p","c">>, <<"c","r","p","c">>}

\* every citation among the words has its lookup among the calls
EveryCitationLookedUp(words, calls) ==
    \A i \in 1..Len(words) :
        /\ CitesOrderRule(words, i)
           => OrderRuleLookup(IntOrRoman(words[i + 1]), ParseInt(words[i + 3])) \in Range(calls)
        /\ CitesSection(words, i)
           => SectionLookup(Upper(words[i + 2]), words[i + 1]) \in Range(calls)

\* C18: for every "Order X Rule n" of the facts whose X is an integer or a
\* roman numeral from 1 to 51, search_for_document issues the order/rule
\* lookup with the pair of integers, and for every cited section it issues a
\* section lookup
C18_EveryCitationLookedUp ==
    pc = "searched" => EveryCitationLookedUp(Split(Lower(facts)), query.lookups)

\* C19: whatever a lookup step finds or fails to find (database file
\* missing, a query raising, a matched row without title or without text,
\* the external call raising), search_for_document returns a bundle; no
\* exception escapes it
C19_NoExceptionEscapes ==
    pc = "searched" => ~result.raised

\* C20: when the database file is missing, the bundle of search_for_document
\* says so: it differs from the bundle of a run that found the database
\* present and without a match
C20_UnavailableCorpusSurfaced ==
    pc = "searched" /\ corpus.state = "missing"
    => result # search_for_document([state |-> "ok", law_sections |-> <<>>, judgments |-> <<>>],
                                    category, facts, query.external)

\* the valid local results of a bundle: the sections of the local database
\* and the judgments it holds
LocalValid(bundle) ==
    Len(SelectSeq(bundle.sections, LAMBDA item : item.source = "local_db")) + Len(bundle.judgments)

C22_BundleCapped ==
    pc = "searched" /\ ~result.raised
    => Len(result.sections) <= 10 /\ Len(result.judgments) <= 5

(***************************************************************************)
(* Claims C23..C30                                                         *)
(***************************************************************************)
\* a category that none of the branches of analyze_case before the last takes
IsGenericCategory(c) ==
    \A word \in {<<"n","o","t","i","c","e">>, <<"w","r","i","t">>, <<"b","a","i","l">>, <<"r","e","c","o","v","e","r","y">>,
                 <<"d","i","v","o","r","c","e">>, <<"t","a","l","a","q">>, <<"k","h","u","l","a">>, <<"c","u","s","t","o","d","y">>,
                 <<"h","i","z","a","n","a","t">>, <<"q","u","a","s","h","i","n","g">>, <<"f","i","r">>, <<"s","t","a","y">>,
                 <<"c","h","e","q","u","e">>, <<"d","i","s","h","o","n","o","u","r">>} :
        ~Contains(Lower(c), word)

HasKeyword(text) ==
    \E p \in 1..Len(CRIMINAL_PATTERNS) : \E k \in 1..Len(CRIMINAL_PATTERNS[p].keywords) :
        Contains(Lower(text), CRIMINAL_PATTERNS[p].keywords[k])

AsksManualReview(a) ==
    \E k \in 1..Len(a.flags_for_review) :
        a.flags_for_review[k].text =
            "Could not automatically determine applicable sections. Manual review required."

\* C23: for a category that matches no specific analyzer, facts without any
\* offense or cause-of-action keyword give confidence UNCERTAIN, no applicable
\* section and the manual-review flag; facts with such a keyword give at least
\* one applicable section and no manual-review flag.
C23_GenericFallback ==
    (pc = "analysed" /\ IsGenericCategory(category)) =>
        IF HasKeyword(facts)
        THEN Len(analysis.applicable_sections) >= 1 /\ ~AsksManualReview(analysis)
        ELSE /\ analysis.confidence = "UNCERTAIN"
             /\ analysis.applicable_sections = <<>>
             /\ AsksManualReview(analysis)

C23_Witness ==
    /\ pc = "analysed"
    /\ category = <<"R","e","n","t"," ","A","g","r","e","e","m","e","n","t">>
    /\ facts = <<"n","e","i","g","h","b","o","r"," ","1","1">>
    /\ analysis.confidence = "UNCERTAIN"
    /\ analysis.applicable_sections = <<>>
    /\ AsksManualReview(analysis)

\* C24: for every request, each section the Classifier marks is_primary for
\* the category and facts is looked up by search_for_document for the same
\* category and facts
C24_PrimariesFetched ==
    pc = "searched" =>
        \A primary \in Primaries(get_applicable_sections(category, facts)) :
            SectionLookup(primary[1], primary[2]) \in Range(query.lookups)

(***************************************************************************)
(* Resolve endpoint: backend/routers/law_resolve.py, POST /api/law/resolve *)
(***************************************************************************)
\* parse_cpc_order_rule; in each pattern part 3 is group 1 and part 7 is group 2
parse_cpc_order_rule(text) ==
    LET Numeral == Alt(<<Plus(In({"i","v","x","l","c","d","m"})), Plus(Digit)>>)
        patterns == <<
            \* order\s+([ivxlcdm]+|\d+)\s+rule\s+(\d+)\s+cpc
            <<Lit(<<"o","r","d","e","r">>), Plus(Ws), Numeral, Plus(Ws), Lit(<<"r","u","l","e">>), Plus(Ws), Plus(Digit), Plus(Ws), Lit(<<"c","p","c">>)>>,
            \* o\.\s*([ivxlcdm]+|\d+)\s*r\.\s*(\d+)\s*cpc
            <<Lit(<<"o",".">>), Star(Ws), Numeral, Star(Ws), Lit(<<"r",".">>), Star(Ws), Plus(Digit), Star(Ws), Lit(<<"c","p","c">>)>>,
            \* order\s+([ivxlcdm]+|\d+)\s*r(?:ule)?\s*(\d+)\s*cpc
            <<Lit(<<"o","r","d","e","r">>), Plus(Ws), Numeral, Star(Ws), Cat(<<Lit(<<"r">>), Opt(Lit(<<"u","l","e">>))>>), Star(Ws), Plus(Digit), Star(Ws), Lit(<<"c","p","c">>)>> >>
        \* "int(o_raw) if re.fullmatch(r'\d+', o_raw) else roman_to_int(o_raw) or 0"
        order_no(o_raw) ==
            IF \A k \in 1..Len(o_raw) : o_raw[k] \in DigitSet THEN ParseInt(o_raw)
            ELSE resolve_roman_to_int(o_raw).value
        pair(p) ==
            IF order_no(Group(text, p, 3)) > 0 /\ ParseInt(Group(text, p, 7)) > 0
            THEN {<<IntToStr(order_no(Group(text, p, 3))), IntToStr(ParseInt(Group(text, p, 7)))>>}
            ELSE {}
        RECURSIVE each(_)
        each(ps) == IF ps = <<>> THEN {} ELSE pair(ps[1]) \cup each(Tail(ps))
        uniq == UNION {each(FindPaths(patterns[k], Lower(text), 0)) : k \in 1..Len(patterns)}
        \* sorted(uniq): tuples of str compare character by character
        RECURSIVE less(_, _)
        less(a, b) ==
            IF a = <<>> THEN b # <<>>
            ELSE IF b = <<>> THEN FALSE
            ELSE IF a[1] = b[1] THEN less(Tail(a), Tail(b))
            ELSE ParseInt(<<a[1]>>) < ParseInt(<<b[1]>>)
        before(x, y) == less(x[1], y[1]) \/ (x[1] = y[1] /\ less(x[2], y[2]))
        RECURSIVE sorted(_)
        sorted(pairs) ==
            IF pairs = {} THEN <<>>
            ELSE LET first == CHOOSE x \in pairs : \A y \in pairs \ {x} : before(x, y)
                 IN  <<[order_no |-> first[1], rule_no |-> first[2]]>> \o sorted(pairs \ {first})
    IN  sorted(uniq)

\* parse_simple_refs; in each pattern part 3 is group 1
parse_simple_refs(text) ==
    LET Cites == Alt(<<Lit(<<"u","/","s">>), Cat(<<Lit(<<"u","n","d","e","r">>), Plus(Ws), Lit(<<"s","e","c","t","i","o","n">>)>>), Lit(<<"s","e","c","t","i","o","n">>)>>)
        Paren == Opt(Cat(<<Lit(<<"(">>), Plus(Digit), Lit(<<")">>)>>))
        \* [0-9]+(?:\([0-9]+\))?(?:-[A-Za-z])?[A-Za-z]?
        Lettered == Cat(<<Plus(Digit), Paren, Opt(Cat(<<Lit(<<"-">>), In(LowerSet)>>)), Opt(In(LowerSet))>>)
        patterns == <<
            [code |-> <<"C","R","P","C">>, parts |-> <<Cites, Plus(Ws), Lettered, Star(Ws), Lit(<<"c","r","p","c">>)>>],
            [code |-> <<"P","P","C">>, parts |-> <<Cites, Plus(Ws), Lettered, Star(Ws), Lit(<<"p","p","c">>)>>],
            \* (?:u/s|under\s+section|section)\s+([0-9]+(?:\([0-9]+\))?)\s*(cpc)
            [code |-> <<"C","P","C">>, parts |-> <<Cites, Plus(Ws), Cat(<<Plus(Digit), Paren>>), Star(Ws), Lit(<<"c","p","c">>)>>],
            \* (?:article|art\.?)\s+([0-9]+[A-Za-z]?)\s*(?:of\s+the\s+)?(constitution)
            [code |-> <<"C","O","N","S","T">>,
             parts |-> <<Cat(<<Lit(<<"a","r","t">>), Opt(Alt(<<Lit(<<"i","c","l","e">>), Lit(<<".">>)>>))>>), Plus(Ws),
                         Cat(<<Plus(Digit), Opt(In(LowerSet))>>), Star(Ws),
                         Opt(Cat(<<Lit(<<"o","f">>), Plus(Ws), Lit(<<"t","h","e">>), Plus(Ws)>>)), Lit(<<"c","o","n","s","t","i","t","u","t","i","o","n">>)>>] >>
        RECURSIVE each(_, _)
        each(code, ps) ==
            IF ps = <<>> THEN <<>>
            ELSE <<[code |-> code, number |-> resolve_normalize_section_number(Group(text, ps[1], 3))]>>
                 \o each(code, Tail(ps))
        RECURSIVE all(_)
        all(k) ==
            IF k > Len(patterns) THEN <<>>
            ELSE each(patterns[k].code, FindPaths(patterns[k].parts, Lower(text), 0)) \o all(k + 1)
        RECURSIVE dedupe(_, _)
        dedupe(refs, uniq) ==
            IF refs = <<>> THEN uniq
            ELSE IF refs[1] \in Range(uniq) THEN dedupe(Tail(refs), uniq)
            ELSE dedupe(Tail(refs), Append(uniq, refs[1]))
    IN  dedupe(all(1), <<>>)

\* mutant: the law is not part of the query; the number alone selects the row
_fetch_exact_section_any_law(rows, law_names, section_number) ==
    SelectSeq(rows, LAMBDA row : row.section_number = section_number)

\* _fetch_exact_section: the rows "WHERE law_name IN (...) AND section_number = ?";
\* fetchone() takes the first of them
_fetch_exact_section(rows, law_names, section_number) ==
    SelectSeq(rows, LAMBDA row : row.law_name \in law_names /\ row.section_number = section_number)

\* resolve_law_refs(req) on the database db, with order_rules =
\* parse_cpc_order_rule(req.text) and refs = parse_simple_refs(req.text)
resolve_law_refs(db, order_rules, refs) ==
    LET \* _fetch_cpc_order_rule: "WHERE law_name = ? AND order_number = ? AND rule_number = ?"
        _fetch_cpc_order_rule(order_no, rule_no) ==
            SelectSeq(db.law_sections, LAMBDA row :
                /\ row.law_name = CPC_LAW_NAME
                /\ row.order_number = ParseInt(order_no)
                /\ row.rule_number = ParseInt(rule_no))
        \* row["..."] or ""
        OrEmpty(value) == IF value = Null THEN <<>> ELSE value
        entry(key, kind, fetched, law_name, section_number) ==
            IF fetched # <<>>
            THEN [key |-> key, law_name |-> fetched[1].law_name, kind |-> kind,
                  section_number |-> fetched[1].section_number,
                  title |-> OrEmpty(fetched[1].section_title),
                  source_file |-> OrEmpty(fetched[1].source_file),
                  text |-> OrEmpty(fetched[1].section_text)]
            ELSE [key |-> key, law_name |-> law_name, kind |-> kind, section_number |-> section_number,
                  title |-> <<>>, source_file |-> <<>>, text |-> <<>>]
        law_names(code) ==
            CASE code = <<"C","R","P","C">> -> {<<"C","o","d","e"," ","o","f"," ","C","r","i","m","i","n","a","l"," ","P","r","o","c","e","d","u","r","e"," ","1","8","9","8">>}
              [] code = <<"P","P","C">> -> {PPC_LAW_NAME}
              [] code = <<"C","P","C">> -> {CPC_LAW_NAME}
              [] code = <<"C","O","N","S","T">> -> {<<"C","o","n","s","t","i","t","u","t","i","o","n"," ","o","f"," ","P","a","k","i","s","t","a","n"," ","1","9","7","3">>}
        orders ==
            [k \in 1..Len(order_rules) |->
                entry(<<"C","P","C"," ","O">> \o order_rules[k].order_no \o <<" ","R">> \o order_rules[k].rule_no, "order_rule",
                      _fetch_cpc_order_rule(order_rules[k].order_no, order_rules[k].rule_no),
                      CPC_LAW_NAME, <<>>)]
        sections ==
            [k \in 1..Len(refs) |->
                entry(refs[k].code \o <<" ">> \o refs[k].number, "section",
                      _fetch_exact_section(db.law_sections, law_names(refs[k].code), refs[k].number),
                      <<>>, refs[k].number)]
        answer(results) ==
            [raised |-> FALSE, keys |-> {"db", "hits", "results"},
             hits |-> Len(SelectSeq(results, LAMBDA x : Strip(x.text) # <<>>)),
             results |-> results]
    IN  IF db.state = "missing"
        THEN [raised |-> FALSE, keys |-> {"db", "hits", "results", "error"},
              hits |-> 0, results |-> <<>>, error |-> "DB not found"]
        \* the first conn.execute raises sqlite3.DatabaseError
        ELSE IF db.state = "unreadable" /\ order_rules \o refs # <<>> THEN [raised |-> TRUE]
        ELSE answer(orders \o sections)

\* POST /api/law/resolve: the text cites up to MaxRefs references, each in
\* one of the forms below, joined by " and "; the database file is missing,
\* is not a database, or holds up to MaxStored of the rows of ResolveRows
\* (order_number and rule_number are 0 where the column is NULL).
\* query.cited lists the key of every reference the text cites.
ResolveLawRefs ==
    LET Citations == {
            [phrase |-> <<"O","r","d","e","r"," ","X","X","I"," ","R","u","l","e"," ","2","6"," ","C","P","C">>, key |-> <<"C","P","C"," ","O","2","1"," ","R","2","6">>],
            [phrase |-> <<"O",".","2","1"," ","R",".","2","6"," ","C","P","C">>, key |-> <<"C","P","C"," ","O","2","1"," ","R","2","6">>],
            [phrase |-> <<"o","r","d","e","r"," ","2"," ","r"," ","2"," ","c","p","c">>, key |-> <<"C","P","C"," ","O","2"," ","R","2">>],
            [phrase |-> <<"s","e","c","t","i","o","n"," ","9"," ","C","P","C">>, key |-> <<"C","P","C"," ","9">>],
            [phrase |-> <<"u","/","s"," ","4","8","9","-","F"," ","P","P","C">>, key |-> <<"P","P","C"," ","4","8","9","F">>],
            [phrase |-> <<"S","e","c","t","i","o","n"," ","4","8","9","f"," ","P","P","C">>, key |-> <<"P","P","C"," ","4","8","9","F">>],
            [phrase |-> <<"u","n","d","e","r"," ","s","e","c","t","i","o","n"," ","4","9","7"," ","C","r","P","C">>, key |-> <<"C","R","P","C"," ","4","9","7">>],
            [phrase |-> <<"A","r","t","i","c","l","e"," ","1","9","9"," ","o","f"," ","t","h","e"," ","C","o","n","s","t","i","t","u","t","i","o","n">>, key |-> <<"C","O","N","S","T"," ","1","9","9">>]}
        ResolveRows == <<
            [law_name |-> CPC_LAW_NAME, section_number |-> <<"O","2","1","R","2","6">>, section_title |-> <<"O","r","d","e","r"," ","2","1"," ","R","u","l","e"," ","2","6">>,
             section_text |-> <<"W","h","e","n"," ","C","o","u","r","t"," ","m","a","y"," ","s","t","a","y"," ","e","x","e","c","u","t","i","o","n">>, source_file |-> <<"c","p","c",".","p","d","f">>,
             order_number |-> 21, rule_number |-> 26],
            [law_name |-> CPC_LAW_NAME, section_number |-> <<"9">>, section_title |-> Null,
             section_text |-> <<"C","o","u","r","t","s"," ","t","o"," ","t","r","y"," ","a","l","l"," ","c","i","v","i","l"," ","s","u","i","t","s">>, source_file |-> <<"c","p","c",".","p","d","f">>,
             order_number |-> 0, rule_number |-> 0],
            [law_name |-> PPC_LAW_NAME, section_number |-> <<"4","8","9","F">>, section_title |-> <<"D","i","s","h","o","n","e","s","t","l","y"," ","i","s","s","u","i","n","g"," ","a"," ","c","h","e","q","u","e">>,
             section_text |-> Null, source_file |-> Null, order_number |-> 0, rule_number |-> 0],
            [law_name |-> PPC_LAW_NAME, section_number |-> <<"4","9","7">>, section_title |-> <<"A","d","u","l","t","e","r","y">>,
             section_text |-> <<" "," ">>, source_file |-> <<"p","p","c",".","p","d","f">>, order_number |-> 0, rule_number |-> 0],
            [law_name |-> PPC_LAW_NAME, section_number |-> <<"1","9","9">>, section_title |-> <<"F","a","l","s","e"," ","s","t","a","t","e","m","e","n","t">>,
             section_text |-> <<"F","a","l","s","e"," ","s","t","a","t","e","m","e","n","t"," ","m","a","d","e"," ","i","n"," ","d","e","c","l","a","r","a","t","i","o","n">>, source_file |-> <<"p","p","c",".","p","d","f">>,
             order_number |-> 0, rule_number |-> 0] >>
        RECURSIVE stored(_)
        stored(ks) == IF ks = {} THEN <<>>
                      ELSE <<ResolveRows[Least(ks)]>> \o stored(ks \ {Least(ks)})
        Databases ==
            {[state |-> s, law_sections |-> <<>>] : s \in {"missing", "unreadable"}}
            \cup {[state |-> "ok", law_sections |-> stored(ks)] :
                     ks \in {t \in SUBSET (1..Len(ResolveRows)) : Cardinality(t) <= MaxStored}}
        phrases(q) == [k \in 1..Len(q) |-> q[k].phrase]
    IN  /\ pc = "idle"
        /\ \E q \in WordSeqs(Citations, MaxRefs) :
              \E order_rules \in {parse_cpc_order_rule(Join(phrases(q), <<" ","a","n","d"," ">>))},
                 refs \in {parse_simple_refs(Join(phrases(q), <<" ","a","n","d"," ">>))},
                 db \in Databases :
                      /\ corpus' = db
                      /\ query' = [fn |-> "resolve_law_refs", module |-> "law_resolve",
                                   text |-> Join(phrases(q), <<" ","a","n","d"," ">>), cited |-> [k \in 1..Len(q) |-> q[k].key]]
                      /\ result' = resolve_law_refs(db, order_rules, refs)
        /\ pc' = "resolved"
        /\ UNCHANGED <<category, facts, analysis, draft, validation>>

NextResolve == ResolveLawRefs

SpecResolve == Init /\ [][NextResolve]_vars

\* the stored row answers the reference with the given key: an order/rule
\* row of the CPC, or a section of the law the code names
Answers(row, key) ==
    \/ /\ row.law_name = CPC_LAW_NAME /\ row.order_number > 0 /\ row.rule_number > 0
       /\ key = <<"C","P","C"," ","O">> \o IntToStr(row.order_number) \o <<" ","R">> \o IntToStr(row.rule_number)
    \/ \E law \in {<<<<"C","P","C">>, CPC_LAW_NAME>>, <<<<"P","P","C">>, PPC_LAW_NAME>>,
                   <<<<"C","R","P","C">>, <<"C","o","d","e"," ","o","f"," ","C","r","i","m","i","n","a","l"," ","P","r","o","c","e","d","u","r","e"," ","1","8","9","8">>>>,
                   <<<<"C","O","N","S","T">>, <<"C","o","n","s","t","i","t","u","t","i","o","n"," ","o","f"," ","P","a","k","i","s","t","a","n"," ","1","9","7","3">>>>} :
          row.law_name = law[2] /\ key = law[1] \o <<" ">> \o row.section_number

\* C25: with the database present, the answer of the resolve call holds one
\* entry per distinct reference the text cites; an entry whose reference a
\* stored row answers carries the text of such a row, any other entry has
\* empty text and title; hits counts the entries with non-blank text.  With
\* the database file missing the call returns hits = 0, no results and the
\* error 'DB not found'.
C25_OneEntryPerReference ==
    (pc = "resolved" /\ corpus.state # "unreadable") =>
        /\ ~result.raised
        /\ corpus.state = "missing" =>
              /\ result.hits = 0 /\ result.results = <<>>
              /\ "error" \in result.keys /\ result.error = "DB not found"
        /\ corpus.state = "ok" =>
              /\ "error" \notin result.keys
              /\ {result.results[k].key : k \in 1..Len(result.results)} = Range(query.cited)
              /\ Len(result.results) = Cardinality(Range(query.cited))
              /\ \A k \in 1..Len(result.results) :
                    IF \E j \in 1..Len(corpus.law_sections) : Answers(corpus.law_sections[j], result.results[k].key)
                    THEN \E j \in 1..Len(corpus.law_sections) :
                            /\ Answers(corpus.law_sections[j], result.results[k].key)
                            /\ result.results[k].text =
                                   (IF corpus.law_sections[j].section_text = Null THEN <<>>
                                    ELSE corpus.law_sections[j].section_text)
                    ELSE result.results[k].text = <<>> /\ result.results[k].title = <<>>
              /\ result.hits = Cardinality({k \in 1..Len(result.results) : Strip(result.results[k].text) # <<>>})

C25_Witness ==
    /\ pc = "resolved"
    /\ corpus.state = "ok"
    /\ query.text = <<"s","e","c","t","i","o","n"," ","9"," ","C","P","C"," ","a","n","d"," ","A","r","t","i","c","l","e"," ","1","9","9"," ","o","f"," ","t","h","e"," ","C","o","n","s","t","i","t","u","t","i","o","n">>
    /\ Len(corpus.law_sections) = 2
    /\ Len(result.results) = 2
    /\ result.results[1].text = <<"C","o","u","r","t","s"," ","t","o"," ","t","r","y"," ","a","l","l"," ","c","i","v","i","l"," ","s","u","i","t","s">>
    /\ result.results[2].text = <<>> /\ result.results[2].title = <<>>
    /\ result.hits = 1

\* C26: every section of the bundle, local or external, carries a
\* relevance_score from 0 to 100, and the sections are in the order of
\* non-increasing relevance_score
C26_ScoredAndOrdered ==
    (pc = "searched" /\ ~result.raised) =>
        /\ \A k \in 1..Len(result.sections) :
              /\ "relevance_score" \in DOMAIN result.sections[k]
              /\ result.sections[k].relevance_score \in 0..100
        /\ \A k \in 1..(Len(result.sections) - 1) :
              result.sections[k].relevance_score >= result.sections[k + 1].relevance_score

\* the conversion as specified: from right to left, a symbol whose value is
\* below the greatest value seen so far is subtracted, any other is added
RECURSIVE RunningMaximumValue(_, _, _, _)
RunningMaximumValue(s, k, total, greatest) ==
    IF k = 0 THEN total
    ELSE LET val == _ROMAN_MAP[s[k]]
         IN  IF val < greatest THEN RunningMaximumValue(s, k - 1, total - val, greatest)
             ELSE RunningMaximumValue(s, k - 1, total + val, val)

\* C27: for every non-empty string over I, V, X, L, C, D, M,
\* law_lookup.roman_to_int returns the value of the right-to-left conversion
\* with the running maximum, which is also what law_resolve.roman_to_int returns
C27_RomanAsSpecified ==
    (/\ pc = "converted" /\ query.module = "law_lookup"
     /\ query.raw # <<>> /\ \A k \in 1..Len(query.raw) : query.raw[k] \in DOMAIN _ROMAN_MAP) =>
        /\ result.value = Some(RunningMaximumValue(query.raw, Len(query.raw), 0, 0))
        /\ result.value = resolve_roman_to_int(query.raw)

\* C28: for a notice category and facts that name no government party (and
\* do not cite Section 80 themselves), search_for_document issues no lookup
\* of CPC Section 80
C28_NoSection80ForPrivateNotice ==
    (/\ pc = "searched" /\ IsNoticeCategory(category)
     /\ ~_detect_government(Lower(facts)) /\ ~Contains(facts, <<"8","0">>)) =>
        SectionLookup(<<"C","P","C">>, <<"8","0">>) \notin Range(query.lookups)

\* the sub-clause numbers a(b) that the digits of a plain number spell
SubClauseSpellings(number) ==
    {SubSeq(number, 1, k) \o <<"(">> \o SubSeq(number, k + 1, Len(number)) \o <<")">> : k \in 1..(Len(number) - 1)}

\* C29: law_lookup.normalize_section_number returns a number made only of
\* digits unchanged, and its key differs from the key of every sub-clause
\* number a(b) written with the same digits (302 and 30(2))
C29_PlainNumberUnchanged ==
    (pc = "normalized" /\ query.module = "law_lookup" /\ IsPlainNumber(query.raw)) =>
        /\ result.value = query.raw
        /\ \A sub \in SubClauseSpellings(query.raw) : normalize_section_number(sub) # result.value

\* C30: after validate_draft has run on the analysis the Classifier gave for
\* the same category and facts, no citation is both in sections_removed and
\* in sections_correct, and is_valid is false exactly when sections_removed
\* is not empty
C30_RemovedNeverCorrect ==
    pc \in {"validated", "returned"} =>
        /\ Range(validation.sections_removed) \cap Range(validation.sections_correct) = {}
        /\ ~validation.is_valid <=> validation.sections_removed # <<>>

\* a private notice whose draft cites Section 80 CPC and Section 268 PPC
C30_Witness ==
    /\ pc = "validated"
    /\ analysis = get_applicable_sections(category, facts)
    /\ ~analysis.is_government_involved
    /\ validation.sections_removed = <<<<"C","P","C"," ","S","e","c","t","i","o","n"," ","8","0">>>>
    /\ validation.sections_correct = <<<<"P","P","C"," ","S","e","c","t","i","o","n"," ","2","6","8">>>>
    /\ ~validation.is_valid

====
